---- MODULE Spec2Model ----
(***************************************************************************)
(* LOGIA MCP Host (src/mcp/server.py): startup discovery of specialist     *)
(* agents, the tool registry, and the HTTP handlers that dispatch to the   *)
(* specialists.  JSON objects are modelled as records: a key is present    *)
(* iff it is in the record's DOMAIN.                                       *)
(***************************************************************************)
EXTENDS Integers, Sequences, FiniteSets, TLC

\* ---------------------------------------------------------------- bounds
\* largest number of entries in servers.json when the Host goes on to serve
MaxConfigs == 1
\* largest number of entries in servers.json when only startup is followed
MaxStartupConfigs == 2
\* number of HTTP requests the Host handles after startup
MaxRequests == 2

\* number of RPC requests the specialist servers handle
MaxRpcRequests == 2
\* number of /process-audio requests the event loop handles concurrently
MaxConcurrent == 2
\* number of tool calls one run of the food-delay executor may make
MaxFoodCalls == 6
\* largest number of orders in system_data.json
MaxOrders == 3

\* places one nearby search answers at most
MaxPlaces == 4

\* ------------------------------------------------------------- constants
SafetyTool == "safety/analyzeAudio"
FoodTool == "food/resolveDelay"
CabTool == "cab/rerouteRequest"
ToolNames == {SafetyTool, FoodTool, CabTool}

\* what TOOL_REGISTRY.get returns for a key that is not in the dict (None)
NoClient == -1
\* the hardcoded safety client; the client made for server_configs[i] is i
SafetyClient == 0

\* ------------------------------------------------------------ JSON values
EmptyDict == [k \in {} |-> TRUE]

Has(d, k) == k \in DOMAIN d

\* the tool descriptors a remote may list: named, empty-named, or nameless
Named(n) == [name |-> n, title |-> "title"]
Nameless == [title |-> "title"]
ToolDescriptors == {Named(n) : n \in ToolNames \cup {""}} \cup {Nameless}

RECURSIVE SeqsUpTo(_, _)
SeqsUpTo(S, n) ==
    IF n = 0 THEN {<<>>}
    ELSE LET shorter == SeqsUpTo(S, n - 1)
         IN  shorter \cup {Append(s, x) : s \in shorter, x \in S}

\* the catalogs a remote may answer tools/list with: none, one tool (as
\* each agent of the repository does), or two
ToolLists ==
    {<<>>} \cup {<<d>> : d \in ToolDescriptors}
        \cup { <<Named(FoodTool), Named(CabTool)>>,
               <<Nameless, Named(SafetyTool)>> }

\* ---------------------------------------------------- the remote's answers
\* What the POST of _send_request can end in: httpx.RequestError
\* (connection refused, timeout), an exception that is not a RequestError
\* (raise_for_status on a non-2xx status, an undecodable body), or a
\* decoded JSON object.
TransportFailure == [kind |-> "RequestError", message |-> "connect failed"]
BadHttp == [kind |-> "HTTPStatusError"]
Json(body) == [kind |-> "json", body |-> body]

RpcError(msg) == [error |-> [message |-> msg]]

InitializeBodies ==
    { [result |-> [capabilities |-> [tools |-> EmptyDict]]],
      [result |-> RpcError("Method not found")],
      RpcError("server error") }

ToolsListBodies ==
    { [result |-> [tools |-> ts]] : ts \in ToolLists }
        \cup { [result |-> RpcError("Method not found")],
               RpcError("server error") }

Replies(bodies) == {TransportFailure, BadHttp} \cup {Json(b) : b \in bodies}

\* ----------------------------------------------------------- MCPClient
\* The value of an exception that propagates out of a call.
Raised == [raised |-> TRUE]

IsRaised(v) == Has(v, "raised")

\* _send_request without its except clause: a RequestError propagates
SendRequestNoCatch(reply) ==
    IF reply.kind = "json" THEN reply.body ELSE Raised

\* _send_request whose except clause returns an empty mapping
SendRequestSwallow(reply) ==
    IF reply.kind = "RequestError" THEN EmptyDict
    ELSE IF reply.kind = "json" THEN reply.body
    ELSE Raised

\* MCPClient._send_request: the decoded body, or {error:{message}} for a
\* RequestError; any other exception propagates.
SendRequest(reply) ==
    IF reply.kind = "RequestError" THEN RpcError(reply.message)
    ELSE IF reply.kind = "json" THEN reply.body
    ELSE Raised

\* initialize accepting any `result`, capabilities or not
InitializeResultAnyResult(response) == Has(response, "result")

\* MCPClient.initialize, given what _send_request returned
InitializeResult(response) ==
    Has(response, "result") /\ Has(response.result, "capabilities")

\* MCPClient.list_tools, given what _send_request returned
ListToolsResult(response) ==
    IF Has(response, "result") /\ Has(response.result, "tools")
    THEN response.result.tools
    ELSE <<>>

\* ------------------------------------------------------------ the registry
RegistryGet(reg, key) == IF key \in DOMAIN reg THEN reg[key] ELSE NoClient

\* a registration that keeps an existing entry (dict.setdefault)
RegistryPutIfAbsent(reg, key, client) ==
    [k \in DOMAIN reg \cup {key} |-> IF k \in DOMAIN reg THEN reg[k] ELSE client]

RegistryPut(reg, key, client) ==
    [k \in DOMAIN reg \cup {key} |-> IF k = key THEN client ELSE reg[k]]

\* lifespan, lines 139-141: for tool in tools: REG[tool['name']] = client.
\* tool['name'] raises KeyError on a descriptor without a name.
RECURSIVE RegisterSafetyTools(_, _, _)
RegisterSafetyTools(reg, tools, client) ==
    IF tools = <<>> THEN reg
    ELSE IF ~Has(Head(tools), "name") THEN Raised
    ELSE RegisterSafetyTools(RegistryPut(reg, Head(tools).name, client),
                             Tail(tools), client)

\* the configuration loop registering under the safety client instead of
\* the entry's own client
RECURSIVE RegisterToolsToSafety(_, _, _)
RegisterToolsToSafety(reg, tools, client) ==
    IF tools = <<>> THEN reg
    ELSE LET tool == Head(tools)
             tool_name == IF Has(tool, "name") THEN tool.name ELSE ""
         IN  RegisterToolsToSafety(IF tool_name # ""
                                     THEN RegistryPut(reg, tool_name, SafetyClient)
                                     ELSE reg,
                                   Tail(tools), client)

\* lifespan, lines 164-168: tool.get('name') and the `if tool_name` test
RECURSIVE RegisterTools(_, _, _)
RegisterTools(reg, tools, client) ==
    IF tools = <<>> THEN reg
    ELSE LET tool == Head(tools)
             tool_name == IF Has(tool, "name") THEN tool.name ELSE ""
         IN  RegisterTools(IF tool_name # ""
                             THEN RegistryPut(reg, tool_name, client)
                             ELSE reg,
                           Tail(tools), client)

\* ------------------------------------------------------------------ state
\* --- the specialist servers' construction
Agents == {"food", "cab", "safety"}

\* the cab-rerouting server publishing the food-delay server's descriptor
ToolDefinitionCopied(agent) ==
    IF agent = "safety"
    THEN << [name |-> SafetyTool, title |-> "Analyze Audio for Safety Threats"] >>
    ELSE << [name |-> FoodTool, title |-> "Resolve Food Delivery Delay"] >>

\* FoodDelayMCP_Server, ReroutingMCP_Server and SafetyMCP_Server set
\* self.tool_definition once, in __init__
ToolDefinition(agent) ==
    IF agent = "food"
    THEN << [name |-> FoodTool, title |-> "Resolve Food Delivery Delay"] >>
    ELSE IF agent = "cab"
    THEN << [name |-> CabTool, title |-> "Handle Cab Rerouting Request"] >>
    ELSE << [name |-> SafetyTool, title |-> "Analyze Audio for Safety Threats"] >>

\* --- system_data.json, the food-delay agent's simulated database
\* load_system_data when the file is missing: {}
NoSystemData == [orders |-> <<>>, restaurants |-> EmptyDict]

\* the restaurant table: two merchants at equal distance from location 4
Restaurants ==
    [m \in {"M1", "M2"} |->
        IF m = "M1" THEN [name |-> "Pizza Hub", location |-> 2]
        ELSE [name |-> "Curry Point", location |-> 6]]

\* merchant ids an order or a caller may name; M9 is in no table
MerchantIds == {"M1", "M2", "M9"}

OrderId(i) == <<"ORD", i>>

\* the `orders` mappings of up to n orders, in the file's order
RECURSIVE OrderTables(_)
OrderTables(n) ==
    IF n = 0 THEN {<<>>}
    ELSE LET shorter == OrderTables(n - 1)
         IN  shorter \cup
             { Append(os, [order_id |-> OrderId(Len(os) + 1), status |-> st,
                           merchant_id |-> m]) :
                 os \in {t \in shorter : Len(t) = n - 1},
                 st \in {"Awaiting Pickup", "Delivered"}, m \in MerchantIds }

SystemDataFiles ==
    {NoSystemData} \cup {[orders |-> os, restaurants |-> Restaurants] :
                            os \in OrderTables(MaxOrders)}

VARIABLES
    servers_json,           \* the file servers.json: [exists, entries]
    pc,                     \* position of lifespan, then "serving"
    server_configs,         \* lifespan's local: the loaded entries
    cfg_idx,                \* lifespan's loop position in server_configs
    clients,                \* the MCPClient objects made so far, by id
    TOOL_REGISTRY,          \* tool name -> client id
    router_agent_executor,  \* "None" or "ready"
    handshake_log,          \* the initialize / tools/list calls made so far
    current_status,         \* the dashboard record
    served,                 \* number of HTTP requests handled so far
    last_request,           \* the last HTTP request handled and its answer
    high_events,            \* number of /process-audio answers so far whose
                            \* analysis data had alert_level "HIGH"
    tool_definition,        \* each specialist server's self.tool_definition
    gemini_model,           \* the safety agent's self.model: "None" or "ready"
    rpc_served,             \* number of RPC requests the specialists handled
    rpc_last,               \* the last RPC request handled and its answer
    inflight,               \* the /process-audio coroutines of the event loop
    food_run,               \* one run of the food-delay agent's executor
    lookup,                 \* system_data.json and one find_nearest_pending_order
    safety_run,             \* one run of the safety agent's analyze_audio
    cab_run                 \* one run of the cab-rerouting agent

startup_vars == <<servers_json, pc, server_configs, cfg_idx, clients,
                  TOOL_REGISTRY, router_agent_executor, handshake_log>>

request_vars == <<current_status, served, last_request, high_events>>

host_vars == <<startup_vars, request_vars>>

agent_vars == <<tool_definition, gemini_model, rpc_served, rpc_last>>

\* what lifespan and the handlers taken one request at a time leave alone
pipeline_vars == <<food_run, lookup, safety_run, cab_run>>

elsewhere == <<agent_vars, inflight, pipeline_vars>>

\* what the specialist servers' RPC handlers leave alone
outside_agents == <<host_vars, inflight, pipeline_vars>>

vars == <<host_vars, elsewhere>>

\* the entries servers.json may hold: {name, address, enabled}, the
\* enabled key being optional
ConfigEntries ==
    {[name |-> "agent", address |-> "url", enabled |-> e] : e \in BOOLEAN}
        \cup {[name |-> "agent", address |-> "url"]}

ServersJsonFiles(max_entries) ==
    {[exists |-> FALSE, entries |-> <<>>]}
        \cup {[exists |-> TRUE, entries |-> es] :
                es \in SeqsUpTo(ConfigEntries, max_entries)}

\* the Host's globals at import time, over the given servers.json files
HostInit(files) ==
    /\ servers_json \in files
    /\ pc = "safety_initialize"
    /\ server_configs = <<>>
    /\ cfg_idx = 0
    /\ clients = EmptyDict
    /\ TOOL_REGISTRY = EmptyDict
    /\ router_agent_executor = "None"
    /\ handshake_log = <<>>
    /\ current_status = [last_recognized_text |-> "", threat_level |-> "SAFE",
                         last_update |-> 0, active_alerts |-> 0]
    /\ served = 0
    /\ last_request = [endpoint |-> "none", http |-> 0, router_calls |-> 0,
                       calls |-> <<>>, body |-> EmptyDict]
    /\ high_events = 0

\* the specialist servers after their constructors
AgentsInit(models) ==
    /\ tool_definition = [agent \in Agents |-> ToolDefinition(agent)]
    /\ gemini_model \in models
    /\ rpc_served = 0
    /\ rpc_last = [agent |-> "none", body |-> EmptyDict, raised |-> FALSE,
                   response |-> EmptyDict, ran |-> FALSE]

\* no /process-audio request has arrived
NoRequests ==
    inflight = [r \in 1..MaxConcurrent |->
                  [pc |-> "new", audio |-> <<>>, http |-> 0, high |-> FALSE,
                   overlapped |-> FALSE, wrote |-> EmptyDict]]

\* the food-delay agent over a system_data.json whose merchant of the
\* order has one of the given preparation times, before any run
FoodIdle(prep_times) ==
    \E prep_time_mins \in prep_times :
        food_run = [status |-> "idle", prep_time_mins |-> prep_time_mins,
                    calls |-> <<>>, output |-> ""]

\* one of the given system_data.json files, before any lookup
LookupIdle(files) ==
    \E data \in files :
        lookup = [data |-> data, called |-> FALSE, driver_location |-> 0,
                  current_merchant_id |-> "", answer |-> EmptyDict]

\* the safety agent before a recording is analysed
SafetyIdle ==
    safety_run = [stage |-> "idle", transcription |-> EmptyDict, sentiment |-> 0,
                  judgment |-> EmptyDict, log |-> <<>>, calls |-> <<>>,
                  result |-> EmptyDict]

\* the cab-rerouting agent before a run
CabIdle ==
    cab_run = [step |-> "idle", extracted |-> FALSE, failed |-> FALSE,
               query |-> "", location_hint |-> "",
               all_found_locations |-> <<>>, options_for_reroute |-> <<>>,
               best |-> [none |-> TRUE],
               route_text |-> "", distance_text |-> "", duration_text |-> "",
               fare_text |-> EmptyDict, log |-> <<>>, notified |-> <<>>,
               output |-> ""]

\* the agents' pipelines at rest
PipelinesIdle ==
    /\ FoodIdle({45})
    /\ LookupIdle({NoSystemData})
    /\ SafetyIdle
    /\ CabIdle

InitWith(files) ==
    /\ HostInit(files)
    /\ AgentsInit({"ready"})
    /\ NoRequests
    /\ PipelinesIdle

Init == InitWith(ServersJsonFiles(MaxConfigs))

StartupInit == InitWith(ServersJsonFiles(MaxStartupConfigs))

NewClient(name, address) == [name |-> name, address |-> address, tools |-> <<>>]

AddClient(cs, id, c) == [k \in DOMAIN cs \cup {id} |-> IF k = id THEN c ELSE cs[k]]

\* one initialize call of client `id`, answered by `reply`
InitializeEntry(id, reply) ==
    LET response == SendRequest(reply)
    IN  [client |-> id, method |-> "initialize", reply |-> reply,
         raised |-> IsRaised(response),
         ok |-> IF IsRaised(response) THEN FALSE ELSE InitializeResult(response)]

\* one tools/list call of client `id`, answered by `reply`
ListToolsEntry(id, reply) ==
    LET response == SendRequest(reply)
    IN  [client |-> id, method |-> "tools/list", reply |-> reply,
         raised |-> IsRaised(response),
         tools |-> IF IsRaised(response) THEN <<>> ELSE ListToolsResult(response)]

\* lifespan going on to list_tools whatever initialize returned
InitializeBranchIgnoringResult(e, then_pc, else_pc) ==
    IF e.raised THEN "crashed" ELSE then_pc

\* `if await client.initialize():` (lines 137 and 162): where lifespan goes
\* after the initialize call recorded as `e`
InitializeBranch(e, then_pc, else_pc) ==
    IF e.raised THEN "crashed"
    ELSE IF e.ok THEN then_pc
    ELSE else_pc

\* lifespan, lines 134-137: make the safety client and initialize it
SafetyInitialize ==
    /\ pc = "safety_initialize"
    /\ \E reply \in Replies(InitializeBodies) :
         LET e == InitializeEntry(SafetyClient, reply)
         IN  /\ clients' = AddClient(clients, SafetyClient,
                                     NewClient("SafetyServer", "http://localhost:8001"))
             /\ handshake_log' = Append(handshake_log, e)
             /\ pc' = InitializeBranch(e, "safety_list_tools", "load_configs")
    /\ UNCHANGED <<request_vars, elsewhere>>
    /\ UNCHANGED <<servers_json, server_configs, cfg_idx, TOOL_REGISTRY,
                   router_agent_executor>>

\* A successful list_tools stores the list in self.tools (line 81).
StoreTools(cs, id, response) ==
    IF ~IsRaised(response) /\ Has(response, "result") /\ Has(response.result, "tools")
    THEN [cs EXCEPT ![id].tools = response.result.tools]
    ELSE cs

\* lifespan, lines 138-141
SafetyListTools ==
    /\ pc = "safety_list_tools"
    /\ \E reply \in Replies(ToolsListBodies) :
         LET e == ListToolsEntry(SafetyClient, reply)
             reg == IF e.raised THEN Raised
                    ELSE RegisterSafetyTools(TOOL_REGISTRY, e.tools, SafetyClient)
         IN  /\ handshake_log' = Append(handshake_log, e)
             /\ clients' = StoreTools(clients, SafetyClient, SendRequest(reply))
             /\ IF IsRaised(reg)
                  THEN /\ pc' = "crashed"
                       /\ UNCHANGED TOOL_REGISTRY
                  ELSE /\ pc' = "load_configs"
                       /\ TOOL_REGISTRY' = reg
    /\ UNCHANGED <<request_vars, elsewhere>>
    /\ UNCHANGED <<servers_json, server_configs, cfg_idx, router_agent_executor>>

\* lifespan, lines 143-149: a missing servers.json leaves the list empty
LoadServerConfigs ==
    /\ pc = "load_configs"
    /\ server_configs' = IF servers_json.exists THEN servers_json.entries ELSE <<>>
    /\ cfg_idx' = 1
    /\ pc' = "config_loop"
    /\ UNCHANGED <<request_vars, elsewhere>>
    /\ UNCHANGED <<servers_json, clients, TOOL_REGISTRY, router_agent_executor,
                   handshake_log>>

\* an entry without the flag taken as enabled
ConfigEnabledDefaultTrue(config) == ~Has(config, "enabled") \/ config.enabled

\* config.get("enabled"): None when the key is absent
ConfigEnabled(config) == Has(config, "enabled") /\ config.enabled

\* lifespan, lines 151-153: `continue` on an entry that is not enabled
ConfigSkip ==
    /\ pc = "config_loop"
    /\ cfg_idx <= Len(server_configs)
    /\ ~ConfigEnabled(server_configs[cfg_idx])
    /\ cfg_idx' = cfg_idx + 1
    /\ UNCHANGED <<request_vars, elsewhere>>
    /\ UNCHANGED <<servers_json, pc, server_configs, clients, TOOL_REGISTRY,
                   router_agent_executor, handshake_log>>

\* lifespan, lines 155-162: make the entry's client and initialize it
ConfigInitialize ==
    /\ pc = "config_loop"
    /\ cfg_idx <= Len(server_configs)
    /\ ConfigEnabled(server_configs[cfg_idx])
    /\ \E reply \in Replies(InitializeBodies) :
         LET config == server_configs[cfg_idx]
             e == InitializeEntry(cfg_idx, reply)
         IN  /\ clients' = AddClient(clients, cfg_idx,
                                     NewClient(config.name, config.address))
             /\ handshake_log' = Append(handshake_log, e)
             /\ pc' = InitializeBranch(e, "config_list_tools", "config_loop")
             /\ cfg_idx' = IF pc' = "config_loop" THEN cfg_idx + 1 ELSE cfg_idx
    /\ UNCHANGED <<request_vars, elsewhere>>
    /\ UNCHANGED <<servers_json, server_configs, TOOL_REGISTRY,
                   router_agent_executor>>

\* lifespan, lines 163-168
ConfigListTools ==
    /\ pc = "config_list_tools"
    /\ \E reply \in Replies(ToolsListBodies) :
         LET e == ListToolsEntry(cfg_idx, reply)
         IN  /\ handshake_log' = Append(handshake_log, e)
             /\ clients' = StoreTools(clients, cfg_idx, SendRequest(reply))
             /\ IF e.raised
                  THEN /\ pc' = "crashed"
                       /\ UNCHANGED <<TOOL_REGISTRY, cfg_idx>>
                  ELSE /\ pc' = "config_loop"
                       /\ cfg_idx' = cfg_idx + 1
                       /\ TOOL_REGISTRY' = RegisterTools(TOOL_REGISTRY, e.tools, cfg_idx)
    /\ UNCHANGED <<request_vars, elsewhere>>
    /\ UNCHANGED <<servers_json, server_configs, router_agent_executor>>

\* create_router_agent: None when the key is missing or the LLM probe fails
CreateRouterAgent(llm_ok) == IF llm_ok THEN "ready" ELSE "None"

\* lifespan, lines 171-180: the loop is over; make the router, then serve
RouterInit ==
    /\ pc = "config_loop"
    /\ cfg_idx > Len(server_configs)
    /\ \E llm_ok \in BOOLEAN :
         router_agent_executor' = CreateRouterAgent(llm_ok)
    /\ pc' = "serving"
    /\ UNCHANGED <<request_vars, elsewhere>>
    /\ UNCHANGED <<servers_json, server_configs, cfg_idx, clients,
                   TOOL_REGISTRY, handshake_log>>

\* ------------------------------------------------------- request handling
\* MCPClient.call_tool: one tools/call through _send_request
CallTool(reply) == SendRequest(reply)

CallRecord(client, tool_name, arguments, reply) ==
    [client |-> client, method |-> "tools/call", name |-> tool_name,
     arguments |-> arguments, reply |-> reply, response |-> CallTool(reply)]

\* a call_tool that is awaited again when it failed
OneCallRetried(call) ==
    IF IsRaised(call.response) \/ Has(call.response, "error")
    THEN <<call, call>> ELSE <<call>>

\* the tools/call requests one `await client.call_tool(...)` sends (lines
\* 229, 314, 323): MCPClient.call_tool posts once and returns
OneCall(call) == <<call>>

\* what FastAPI answers when a handler raises HTTPException(code, detail)
\* (an exception that is no HTTPException is answered with a plain 500)
HttpError(endpoint, code, detail, router_calls, calls) ==
    [endpoint |-> endpoint, http |-> code, router_calls |-> router_calls,
     calls |-> calls, body |-> [detail |-> detail]]

HttpOk(endpoint, body, router_calls, calls) ==
    [endpoint |-> endpoint, http |-> 200, router_calls |-> router_calls,
     calls |-> calls, body |-> body]

\* GET /
Root ==
    /\ pc = "serving"
    /\ served < MaxRequests
    /\ last_request' = HttpOk("/", [service |-> "LOGIA MCP Host",
                                    status |-> "running",
                                    registered_tools |-> DOMAIN TOOL_REGISTRY],
                              0, <<>>)
    /\ served' = served + 1
    /\ UNCHANGED <<startup_vars, current_status, high_events, elsewhere>>

\* GET /status
GetStatus ==
    /\ pc = "serving"
    /\ served < MaxRequests
    /\ last_request' =
         HttpOk("/status",
                [host_dashboard |->
                    [current_threat_level |-> current_status.threat_level,
                     last_recognized_text |-> current_status.last_recognized_text,
                     active_alerts_today |-> current_status.active_alerts,
                     last_status_update |-> current_status.last_update],
                 registered_tools |-> DOMAIN TOOL_REGISTRY],
                0, <<>>)
    /\ served' = served + 1
    /\ UNCHANGED <<startup_vars, current_status, high_events, elsewhere>>

\* --- POST /resolve-disruption
Scenarios == {"", "my food is late"}

\* The structured-output field agent_name is a plain string.  A label is
\* modelled as the sequence of its words, and Python's `sub in label` as
\* "sub is one of the words".
RouterLabels ==
    { <<"safety_agent">>, <<"food_delay_agent">>, <<"cab_rerouting_agent">>,
      <<"billing_agent">>, <<"cab_rerouting_agent", "food_delay_agent">> }

\* router_agent_executor.ainvoke: a label, or an exception
RouterOutcomes == {Raised} \cup {[agent_name |-> l] : l \in RouterLabels}

Contains(label, sub) == \E i \in DOMAIN label : label[i] = sub

\* the if / elif chain of lines 310-329
BranchOf(chosen_agent_name) ==
    IF Contains(chosen_agent_name, "food_delay_agent") THEN "food"
    ELSE IF Contains(chosen_agent_name, "cab_rerouting_agent") THEN "cab"
    ELSE IF Contains(chosen_agent_name, "safety_agent") THEN "safety"
    ELSE "none"

\* the two calling branches with their tool names exchanged
BranchToolSwapped(branch) == IF branch = "food" THEN CabTool ELSE FoodTool

\* the tool name each calling branch looks up and calls (lines 311-323)
BranchTool(branch) == IF branch = "food" THEN FoodTool ELSE CabTool

\* a missing specialist answered with the empty result
NotConnectedSilent(branch) == EmptyDict

NotConnected(branch) ==
    IF branch = "food"
    THEN [error |-> "Food Delay Agent is not connected. Check servers.json and agent status."]
    ELSE [error |-> "Cab Rerouting Agent is not connected."]

SafetyNotice ==
    [action |-> "Routing to Safety Agent.",
     details |-> "This requires audio input via the Safety Alert section."]

\* specialist_response.get("result", {}).get("content", [{}])[0]
\* ([0] of an empty list raises IndexError)
SpecialistResult(specialist_response) ==
    LET result == IF Has(specialist_response, "result")
                  THEN specialist_response.result ELSE EmptyDict
        content == IF Has(result, "content") THEN result.content ELSE <<EmptyDict>>
    IN  IF Len(content) = 0 THEN Raised ELSE content[1]

\* What a specialist answers a tools/call carrying `scenario`: the agents'
\* mcp_tools_call puts its missing-argument error inside `result`
\* (food_delay_agent.py 196-199, rerouting_agent.py 253-256); a remote may
\* also answer with an empty content list.
ToolsCallBodies(scenario) ==
    IF scenario = ""
    THEN { [result |-> RpcError("Scenario is required.")] }
    ELSE { [result |-> [content |-> <<[type |-> "text", text |-> "answer"]>>]],
           [result |-> [content |-> <<>>]] }

ResolveEndpoint == "/resolve-disruption"

\* resolve_disruption without the test of lines 297-298: ainvoke on None
\* raises inside the try block
ResolveOutcomeUnguarded(scenario, route, reply) ==
    HttpError(ResolveEndpoint, 500, "LLM Routing Error", 1, <<>>) @@ [route |-> route]

\* resolve_disruption, lines 294-338
ResolveOutcome(scenario, route, reply) ==
    IF router_agent_executor = "None"
    THEN HttpError(ResolveEndpoint, 503, "Router Agent is initializing or failed.", 0, <<>>)
    ELSE IF IsRaised(route)
    THEN HttpError(ResolveEndpoint, 500, "LLM Routing Error", 1, <<>>) @@ [route |-> route]
    ELSE
      LET chosen_agent_name == route.agent_name
          branch == BranchOf(chosen_agent_name)
          tool == BranchTool(branch)
          client == RegistryGet(TOOL_REGISTRY, tool)
          call == CallRecord(client, tool, [scenario |-> scenario], reply)
          Answer(specialist_result, calls) ==
              HttpOk(ResolveEndpoint,
                     [router_reasoning |-> [input |-> scenario,
                                            decision |-> chosen_agent_name],
                      specialist_result |-> specialist_result], 1, calls)
                @@ [route |-> route]
      IN  IF branch = "safety" THEN Answer(SafetyNotice, <<>>)
          ELSE IF branch = "none" THEN Answer(EmptyDict, <<>>)
          ELSE IF client = NoClient THEN Answer(NotConnected(branch), <<>>)
          ELSE IF IsRaised(call.response)
                  \/ IsRaised(SpecialistResult(call.response))
          THEN HttpError(ResolveEndpoint, 500, "LLM Routing Error", 1, OneCall(call))
                 @@ [route |-> route]
          ELSE Answer(SpecialistResult(call.response), OneCall(call))

\* whether the request reaches a call_tool (lines 314 and 323)
ResolveCalls(route) ==
    /\ router_agent_executor # "None"
    /\ ~IsRaised(route)
    /\ BranchOf(route.agent_name) \in {"food", "cab"}
    /\ RegistryGet(TOOL_REGISTRY, BranchTool(BranchOf(route.agent_name))) # NoClient

ResolveDisruption ==
    /\ pc = "serving"
    /\ served < MaxRequests
    /\ \E scenario \in Scenarios, route \in RouterOutcomes :
         \E reply \in IF ResolveCalls(route) THEN Replies(ToolsCallBodies(scenario))
                       ELSE {TransportFailure} :
           last_request' = ResolveOutcome(scenario, route, reply)
    /\ served' = served + 1
    /\ UNCHANGED <<startup_vars, current_status, high_events, elsewhere>>

\* --- POST /process-audio
\* the uploaded file's bytes
AudioUploads == { <<>>, <<82, 73>> }

\* base64.b64encode, as the sequence of 6-bit digits; 64 stands for '='
RECURSIVE Base64(_)
Base64(bytes) ==
    IF Len(bytes) = 0 THEN <<>>
    ELSE IF Len(bytes) = 1
    THEN << bytes[1] \div 4, (bytes[1] % 4) * 16, 64, 64 >>
    ELSE IF Len(bytes) = 2
    THEN << bytes[1] \div 4, (bytes[1] % 4) * 16 + bytes[2] \div 16,
            (bytes[2] % 16) * 4, 64 >>
    ELSE << bytes[1] \div 4, (bytes[1] % 4) * 16 + bytes[2] \div 16,
            (bytes[2] % 16) * 4 + bytes[3] \div 64, bytes[3] % 64 >>
            \o Base64(SubSeq(bytes, 4, Len(bytes)))

\* dict.get(k, default)
DictGet(d, k, default) == IF Has(d, k) THEN d[k] ELSE default

\* --- the safety agent's pipeline (safety_agent_vosk.py)
\* the Twilio environment of a process: credentials missing, a working
\* account, or an account whose messages.create raises
TwilioEnvs == {"no credentials", "ok", "raises"}

\* notify_officials, lines 35-54: every failure is caught and returned as text
NotifyOfficials(twilio) ==
    IF twilio = "no credentials" THEN "Twilio credentials are not fully configured."
    ELSE IF twilio = "ok" THEN "Officials have been notified via Twilio."
    ELSE "Error notifying officials"

\* contact_user, lines 56-75
ContactUser(twilio) ==
    IF twilio = "no credentials" THEN "Twilio credentials are not fully configured."
    ELSE IF twilio = "ok" THEN "A check-in message has been sent to the user."
    ELSE "Error contacting user"

\* what the transcription request yields: an exception, or the stripped text
Transcriptions == { Raised, [text |-> ""], [text |-> "help me"], [text |-> "hello"] }

\* what the judgment request yields once json.loads has run on its text: an
\* exception (the request failed or the text is no JSON), or the parsed object
Judgments ==
    { Raised,
      [threat_level |-> "HIGH", threat_score |-> 9, justification |-> "risk words"],
      [threat_level |-> "MEDIUM", threat_score |-> 5, justification |-> "conflict"],
      [threat_level |-> "SAFE", threat_score |-> 1, justification |-> "calm"],
      [threat_level |-> "CRITICAL", threat_score |-> 10, justification |-> "weapon"],
      [threat_score |-> 3, justification |-> "unclear"] }

\* GeminiSafetyAgent.analyze_audio, lines 90-152
AnalyzeAudio(model, transcription, judgment, twilio) ==
    IF model = "None" THEN [error |-> "Gemini model not initialized."]
    ELSE IF IsRaised(transcription) THEN [error |-> "An error occurred during analysis"]
    ELSE IF transcription.text = ""
    THEN [threat_analysis |-> [threat_level |-> "SAFE",
                               justification |-> "No speech detected."]]
    ELSE IF IsRaised(judgment) THEN [error |-> "An error occurred during analysis"]
    ELSE LET threat_analysis == [recognized_text |-> transcription.text] @@ judgment
             level == DictGet(threat_analysis, "threat_level", "None")
             action_result ==
                 IF level = "HIGH"
                 THEN [action_taken |-> NotifyOfficials(twilio),
                       chain_of_thought |-> "Threat was HIGH, notified officials."]
                 ELSE IF level = "MEDIUM"
                 THEN [action_taken |-> ContactUser(twilio),
                       chain_of_thought |-> "Threat was MEDIUM, contacted user for check-in."]
                 ELSE [chain_of_thought |-> "Threat was SAFE, no action required."]
         IN  [threat_analysis |-> threat_analysis, responder_actions |-> action_result]

\* the `data` a safety server may answer with: nothing, the flat record the
\* Host reads, and a record GeminiSafetyAgent.analyze_audio builds
AnalysisData ==
    { EmptyDict,
      [alert_level |-> "HIGH", recognized_text |-> "help me"],
      [alert_level |-> "SAFE", recognized_text |-> "hello"],
      AnalyzeAudio("ready", [text |-> "help me"],
                   [threat_level |-> "HIGH", threat_score |-> 9,
                    justification |-> "risk words"], "ok") }

\* What the safety server answers a tools/call carrying `audio_data`
\* (safety_agent_vosk.py 163-168)
SafetyCallBodies(audio_data) ==
    IF audio_data = <<>>
    THEN { [result |-> RpcError("audio_data is required.")] }
    ELSE { [result |-> [content |-> <<[type |-> "dict", data |-> d]>>]] :
             d \in AnalysisData }

\* lines 235-237
FinalResultData(result) ==
    IF /\ Has(result, "result")
       /\ Has(result.result, "content")
       /\ Len(result.result.content) > 0
       /\ Has(result.result.content[1], "data")
    THEN result.result.content[1].data
    ELSE EmptyDict

\* 1 when the analysis data carries alert_level "HIGH" (line 249), else 0
HighEvent(data) ==
    IF Has(data, "alert_level") /\ data.alert_level = "HIGH" THEN 1 ELSE 0

\* a dashboard whose count is set to one, not added to, by a HIGH alert
UpdateStatusOverwriting(status, data, now) ==
    IF DOMAIN data = {} THEN status
    ELSE [threat_level |-> DictGet(data, "alert_level", "UNKNOWN"),
          last_recognized_text |-> DictGet(data, "recognized_text", ""),
          last_update |-> now,
          active_alerts |-> IF DictGet(data, "alert_level", "UNKNOWN") = "HIGH"
                            THEN 1 ELSE status.active_alerts]

\* a dashboard update that leaves the timestamp of the request before
UpdateStatusKeepingTime(status, data, now) ==
    IF DOMAIN data = {} THEN status
    ELSE [threat_level |-> DictGet(data, "alert_level", "UNKNOWN"),
          last_recognized_text |-> DictGet(data, "recognized_text", ""),
          last_update |-> status.last_update,
          active_alerts |-> IF DictGet(data, "alert_level", "UNKNOWN") = "HIGH"
                            THEN status.active_alerts + 1 ELSE status.active_alerts]

\* a dashboard that counts every analysed recording as an alert
UpdateStatusCountingAll(status, data, now) ==
    IF DOMAIN data = {} THEN status
    ELSE [threat_level |-> DictGet(data, "alert_level", "UNKNOWN"),
          last_recognized_text |-> DictGet(data, "recognized_text", ""),
          last_update |-> now,
          active_alerts |-> status.active_alerts + 1]

\* lines 239-250: the dashboard after an answer carrying `data` at time `now`
UpdateStatus(status, data, now) ==
    IF DOMAIN data = {} THEN status
    ELSE LET alert_level == DictGet(data, "alert_level", "UNKNOWN")
             recognized_text == DictGet(data, "recognized_text", "")
         IN  [threat_level |-> alert_level,
              last_recognized_text |-> recognized_text,
              last_update |-> now,
              active_alerts |-> IF alert_level = "HIGH"
                                THEN status.active_alerts + 1
                                ELSE status.active_alerts]

\* lines 260-287: the SMS is skipped without credentials, and a failure to
\* send it is caught
SmsOutcome(data, twilio) ==
    IF DOMAIN data = {} \/ DictGet(data, "alert_level", "UNKNOWN") # "HIGH"
    THEN "none"
    ELSE IF twilio = "no credentials" THEN "skipped"
    ELSE IF twilio = "ok" THEN "sent" ELSE "failed"

\* the Twilio environment, consulted only for a HIGH alert
TwilioStates(data) ==
    IF SmsOutcome(data, "ok") = "none" THEN {"ok"}
    ELSE {"no credentials", "ok", "raises"}

AudioEndpoint == "/process-audio"

\* a handler that blanks the dashboard when it answers with an error
ProcessAudioResetting ==
    /\ pc = "serving"
    /\ served < MaxRequests
    /\ last_request' = HttpError(AudioEndpoint, 501,
                                 "No server found that provides the tool", 0, <<>>)
    /\ current_status' = [current_status EXCEPT !.threat_level = "UNKNOWN",
                                                !.last_recognized_text = ""]
    /\ served' = served + 1
    /\ UNCHANGED <<startup_vars, high_events, elsewhere>>

\* a handler that drops the tool of a specialist it could not reach
ProcessAudioEvicting ==
    /\ pc = "serving"
    /\ served < MaxRequests
    /\ SafetyTool \in DOMAIN TOOL_REGISTRY
    /\ LET call == CallRecord(TOOL_REGISTRY[SafetyTool], SafetyTool,
                              [audio_data |-> <<>>, encoding |-> "base64"],
                              TransportFailure)
       IN  last_request' = HttpError(AudioEndpoint, 500, call.response.error.message,
                                     0, <<call>>)
    /\ TOOL_REGISTRY' = [k \in DOMAIN TOOL_REGISTRY \ {SafetyTool} |-> TOOL_REGISTRY[k]]
    /\ served' = served + 1
    /\ UNCHANGED <<servers_json, pc, server_configs, cfg_idx, clients,
                   router_agent_executor, handshake_log, current_status, high_events,
                   elsewhere>>

\* process_audio, lines 210-290
ProcessAudio ==
    /\ pc = "serving"
    /\ served < MaxRequests
    /\ LET tool_name == SafetyTool
           client == RegistryGet(TOOL_REGISTRY, tool_name)
       IN  IF client = NoClient
           THEN /\ last_request' = HttpError(AudioEndpoint, 501,
                                             "No server found that provides the tool", 0, <<>>)
                /\ UNCHANGED <<current_status, high_events>>
           ELSE \E audio \in AudioUploads :
                \E reply \in Replies(SafetyCallBodies(Base64(audio))) :
                  LET arguments == [audio_data |-> Base64(audio),
                                    encoding |-> "base64"]
                      call == CallRecord(client, tool_name, arguments, reply)
                      result == call.response
                      data == FinalResultData(result)
                  IN  IF IsRaised(result)
                      THEN /\ last_request' = HttpError(AudioEndpoint, 500,
                                                        "Internal Server Error", 0, OneCall(call))
                           /\ UNCHANGED <<current_status, high_events>>
                      ELSE IF Has(result, "error")
                      THEN /\ last_request' = HttpError(AudioEndpoint, 500,
                                                        result.error.message, 0, OneCall(call))
                           /\ UNCHANGED <<current_status, high_events>>
                      ELSE \E twilio \in TwilioStates(data) :
                             /\ current_status' = UpdateStatus(current_status, data, served + 1)
                             /\ high_events' = high_events + HighEvent(data)
                             /\ last_request' =
                                  HttpOk(AudioEndpoint, data, 0, OneCall(call))
                                    @@ [sms |-> SmsOutcome(data, twilio)]
    /\ served' = served + 1
    /\ UNCHANGED <<startup_vars, elsewhere>>

\* ------------------------------------------------- the specialist servers
\* base64.b64decode over the 6-bit digits (64 stands for '='): four digits
\* give up to three bytes, and a text whose length is no multiple of four,
\* or whose padding is misplaced, raises binascii.Error
RECURSIVE B64Decode(_)
B64Decode(chars) ==
    IF Len(chars) = 0 THEN [bytes |-> <<>>]
    ELSE IF Len(chars) < 4 THEN Raised
    ELSE IF chars[1] = 64 \/ chars[2] = 64 \/ (chars[3] = 64 /\ chars[4] # 64) THEN Raised
    ELSE LET first == chars[1] * 4 + chars[2] \div 16
             second == (chars[2] % 16) * 16 + chars[3] \div 4
             third == (chars[3] % 4) * 64 + chars[4]
             quad == IF chars[3] = 64 THEN <<first>>
                     ELSE IF chars[4] = 64 THEN <<first, second>>
                     ELSE <<first, second, third>>
             rest == B64Decode(SubSeq(chars, 5, Len(chars)))
         IN  IF IsRaised(rest) \/ (chars[4] = 64 /\ Len(chars) > 4) THEN Raised
             ELSE [bytes |-> quad \o rest.bytes]

\* mcp_initialize, the same in the three servers
McpInitialize(params) == [capabilities |-> [tools |-> EmptyDict]]

\* mcp_tools_list, the same in the three servers
McpToolsList(definition, params) == [tools |-> definition]

\* AgentExecutor.ainvoke as LangChainFoodAgent.run sees it: an exception, a
\* mapping with an output, or one without
ExecutorOutcomes == { Raised, [output |-> "Final Answer"], EmptyDict }

\* LangChainFoodAgent.run, lines 179-184
FoodRun(scenario, executor) ==
    IF IsRaised(executor) THEN "AGENT EXECUTION FAILED"
    ELSE DictGet(executor, "output", "No output generated.")

\* the body of LangChainReroutingAgent.run's try block: an exception, or the
\* text one of its return statements yields
RerouteOutcomes ==
    { Raised,
      [text |-> "Could not understand scenario. Please provide the place and approximate location."],
      [text |-> "No suitable alternative destinations found nearby."],
      [text |-> "==== Reasoning Log ==== ... ==== Final Answer ==== Reroute complete."] }

\* LangChainReroutingAgent.run, lines 169-242
RerouteRun(scenario, outcome) ==
    IF IsRaised(outcome) THEN "AGENT EXECUTION FAILED" ELSE outcome.text

\* params.get("arguments", {}): `params` is None when the request body has
\* no params, and None has no get
CallArguments(params) ==
    IF IsRaised(params) THEN Raised
    ELSE DictGet(params, "arguments", EmptyDict)

\* FoodDelayMCP_Server.mcp_tools_call, lines 195-199; `ran` tells whether the
\* agent's run was started
FoodMcpToolsCall(params, executor) ==
    LET arguments == CallArguments(params)
    IN  IF IsRaised(arguments) THEN [raised |-> TRUE, ran |-> FALSE]
        ELSE IF DictGet(arguments, "scenario", "") = ""
        THEN [result |-> RpcError("Scenario is required."), ran |-> FALSE]
        ELSE [result |-> [content |-> << [type |-> "text",
                                          text |-> FoodRun(arguments.scenario, executor)] >>],
              ran |-> TRUE]

\* ReroutingMCP_Server.mcp_tools_call, lines 252-256
RerouteMcpToolsCall(params, outcome) ==
    LET arguments == CallArguments(params)
    IN  IF IsRaised(arguments) THEN [raised |-> TRUE, ran |-> FALSE]
        ELSE IF DictGet(arguments, "scenario", "") = ""
        THEN [result |-> RpcError("Scenario is required."), ran |-> FALSE]
        ELSE [result |-> [content |-> << [type |-> "text",
                                          text |-> RerouteRun(arguments.scenario, outcome)] >>],
              ran |-> TRUE]

\* SafetyMCP_Server.mcp_tools_call, lines 163-168: b64decode runs outside
\* any try block
SafetyMcpToolsCall(params, model, transcription, judgment, twilio) ==
    LET arguments == CallArguments(params)
        audio_base64 == DictGet(arguments, "audio_data", <<>>)
        audio_bytes == B64Decode(audio_base64)
    IN  IF IsRaised(arguments) THEN [raised |-> TRUE, ran |-> FALSE]
        ELSE IF audio_base64 = <<>>
        THEN [result |-> RpcError("audio_data is required."), ran |-> FALSE]
        ELSE IF IsRaised(audio_bytes) THEN [raised |-> TRUE, ran |-> FALSE]
        ELSE [result |-> [content |-> << [type |-> "dict",
                                          data |-> AnalyzeAudio(model, transcription,
                                                                judgment, twilio)] >>],
              ran |-> TRUE]

\* the JSONResponse every handle_rpc_request ends with (food 207, cab 264,
\* safety 176): whatever the method gave goes under `result`
RpcResponse(body, result) ==
    [jsonrpc |-> "2.0", id |-> DictGet(body, "id", 0), result |-> result]

\* body.get("params")
BodyParams(body) == DictGet(body, "params", Raised)

\* handle_rpc_request of the three servers: `called` is what mcp_tools_call
\* gave for this body
HandleRpcRequest(definition, body, called) ==
    LET method == DictGet(body, "method", "None")
        params == BodyParams(body)
    IN  IF method = "initialize"
        THEN [raised |-> FALSE, ran |-> FALSE,
              response |-> RpcResponse(body, McpInitialize(params))]
        ELSE IF method = "tools/list"
        THEN [raised |-> FALSE, ran |-> FALSE,
              response |-> RpcResponse(body, McpToolsList(definition, params))]
        ELSE IF method = "tools/call"
        THEN IF IsRaised(called)
             THEN [raised |-> TRUE, ran |-> FALSE, response |-> EmptyDict]
             ELSE [raised |-> FALSE, ran |-> called.ran,
                   response |-> RpcResponse(body, called.result)]
        ELSE [raised |-> FALSE, ran |-> FALSE,
              response |-> RpcResponse(body, RpcError("Method not found"))]

RpcMethods == {"initialize", "tools/list", "tools/call", "resources/list"}

\* params of a tools/call sent to the food-delay or the cab-rerouting server
ScenarioParams ==
    { [name |-> "tool", arguments |-> [scenario |-> "my food is late"]],
      [name |-> "tool", arguments |-> [scenario |-> ""]],
      [name |-> "tool", arguments |-> EmptyDict],
      EmptyDict }

\* params of a tools/call sent to the safety server: a recording the Host
\* encoded, an empty one, a text that is no base64, nothing
AudioParams ==
    { [name |-> SafetyTool, arguments |-> [audio_data |-> Base64(<<82, 73>>),
                                           encoding |-> "base64"]],
      [name |-> SafetyTool, arguments |-> [audio_data |-> <<>>, encoding |-> "base64"]],
      [name |-> SafetyTool, arguments |-> [audio_data |-> <<26, 27, 28>>,
                                           encoding |-> "base64"]],
      EmptyDict }

\* the JSON bodies a client may post: with params, or without
RpcBodies(params) ==
    { [jsonrpc |-> "2.0", id |-> 1, method |-> m] : m \in RpcMethods }
    \cup { [jsonrpc |-> "2.0", id |-> 1, method |-> m, params |-> EmptyDict] :
             m \in RpcMethods \ {"tools/call"} }
    \cup { [jsonrpc |-> "2.0", id |-> 1, method |-> "tools/call", params |-> p] :
             p \in params }

RpcRecord(agent, body, handled) ==
    [agent |-> agent, body |-> body, raised |-> handled.raised,
     response |-> handled.response, ran |-> handled.ran]

\* POST / of the food-delay server (port 8002)
FoodHandleRpcRequest ==
    /\ rpc_served < MaxRpcRequests
    /\ \E body \in RpcBodies(ScenarioParams), executor \in ExecutorOutcomes :
         rpc_last' = RpcRecord("food", body,
                               HandleRpcRequest(tool_definition["food"], body,
                                                FoodMcpToolsCall(BodyParams(body), executor)))
    /\ rpc_served' = rpc_served + 1
    /\ UNCHANGED <<outside_agents, tool_definition, gemini_model>>

\* POST / of the cab-rerouting server (port 8003)
RerouteHandleRpcRequest ==
    /\ rpc_served < MaxRpcRequests
    /\ \E body \in RpcBodies(ScenarioParams), outcome \in RerouteOutcomes :
         rpc_last' = RpcRecord("cab", body,
                               HandleRpcRequest(tool_definition["cab"], body,
                                                RerouteMcpToolsCall(BodyParams(body), outcome)))
    /\ rpc_served' = rpc_served + 1
    /\ UNCHANGED <<outside_agents, tool_definition, gemini_model>>

\* POST / of the safety server (port 8001)
SafetyHandleRpcRequest ==
    /\ rpc_served < MaxRpcRequests
    /\ \E body \in RpcBodies(AudioParams), transcription \in Transcriptions,
          judgment \in Judgments, twilio \in TwilioEnvs :
         rpc_last' = RpcRecord("safety", body,
                               HandleRpcRequest(tool_definition["safety"], body,
                                                SafetyMcpToolsCall(BodyParams(body), gemini_model,
                                                                   transcription, judgment, twilio)))
    /\ rpc_served' = rpc_served + 1
    /\ UNCHANGED <<outside_agents, tool_definition, gemini_model>>

\* --------------------------------------- /process-audio on the event loop
\* process_audio is a coroutine of uvicorn's single event loop: requests
\* interleave only where it awaits, at `await audio.read()` (line 221) and
\* at `await client.call_tool(...)` (line 229); the code between two awaits,
\* and after the last one, runs without interruption.
InFlight(r) == inflight[r].pc \in {"reading", "calling"}

\* what lines 243-245 of one request put on the dashboard at time `now`:
\* nothing when the data is empty
Written(data, now) ==
    IF DOMAIN data = {} THEN EmptyDict
    ELSE [threat_level |-> DictGet(data, "alert_level", "UNKNOWN"),
          last_recognized_text |-> DictGet(data, "recognized_text", ""),
          last_update |-> now]

\* lines 210-221: the lookup, then the coroutine awaits the upload
AudioBegin(r) ==
    /\ pc = "serving"
    /\ inflight[r].pc = "new"
    /\ LET client == RegistryGet(TOOL_REGISTRY, SafetyTool)
           others == {q \in DOMAIN inflight : q # r /\ InFlight(q)}
       IN  IF client = NoClient
           THEN /\ inflight' = [inflight EXCEPT ![r].pc = "done", ![r].http = 501]
                /\ served' = served + 1
           ELSE /\ inflight' = [q \in DOMAIN inflight |->
                                  IF q = r
                                  THEN [inflight[q] EXCEPT !.pc = "reading",
                                                           !.overlapped = others # {}]
                                  ELSE IF q \in others
                                  THEN [inflight[q] EXCEPT !.overlapped = TRUE]
                                  ELSE inflight[q]]
                /\ UNCHANGED served
    /\ UNCHANGED <<startup_vars, current_status, last_request, high_events,
                   agent_vars, pipeline_vars>>

\* lines 221-229: the upload is read and encoded, the tools/call is posted
\* and the coroutine awaits the answer
AudioRead(r) ==
    /\ inflight[r].pc = "reading"
    /\ \E audio \in AudioUploads :
         inflight' = [inflight EXCEPT ![r].pc = "calling", ![r].audio = audio]
    /\ UNCHANGED <<host_vars, agent_vars, pipeline_vars>>

\* lines 229-290: the answer arrives and the rest of the handler runs
AudioFinish(r) ==
    /\ inflight[r].pc = "calling"
    /\ \E reply \in Replies(SafetyCallBodies(Base64(inflight[r].audio))) :
         LET arguments == [audio_data |-> Base64(inflight[r].audio),
                           encoding |-> "base64"]
             call == CallRecord(RegistryGet(TOOL_REGISTRY, SafetyTool), SafetyTool,
                                arguments, reply)
             result == call.response
             data == FinalResultData(result)
         IN  IF IsRaised(result) \/ Has(result, "error")
             THEN /\ inflight' = [inflight EXCEPT ![r].pc = "done", ![r].http = 500]
                  /\ UNCHANGED <<current_status, high_events>>
             ELSE /\ inflight' = [inflight EXCEPT ![r].pc = "done", ![r].http = 200,
                                                  ![r].high = (HighEvent(data) = 1),
                                                  ![r].wrote = Written(data, served + 1)]
                  /\ current_status' = UpdateStatus(current_status, data, served + 1)
                  /\ high_events' = high_events + HighEvent(data)
    /\ served' = served + 1
    /\ UNCHANGED <<startup_vars, last_request, agent_vars, pipeline_vars>>

\* ------------------------------------------ the food-delay agent's executor
\* the five StructuredTools given to the AgentExecutor (lines 142-148)
FoodTools ==
    { "get_order_details", "get_merchant_details", "find_nearest_pending_order",
      "get_nearby_merchants", "notify_via_twilio" }

\* an "action" the LLM may answer with: any of the tools, a notification
\* being addressed to the driver or to the customer by its message
FoodActions ==
    { [tool |-> t, to |-> ""] : t \in FoodTools \ {"notify_via_twilio"} }
    \cup { [tool |-> "notify_via_twilio", to |-> who] : who \in {"driver", "customer"} }

\* LangChainFoodAgent.run, line 181: the executor is invoked
FoodRunStart ==
    /\ food_run.status = "idle"
    /\ food_run' = [food_run EXCEPT !.status = "running"]
    /\ UNCHANGED <<host_vars, agent_vars, inflight, lookup, safety_run, cab_run>>

\* one iteration of the AgentExecutor: the LLM names a tool and the executor
\* calls it.  The plan of lines 157-168 is text of the prompt; which tool is
\* named at each iteration is the LLM's answer.
FoodToolCall ==
    /\ food_run.status = "running"
    /\ Len(food_run.calls) < MaxFoodCalls
    /\ \E action \in FoodActions :
         food_run' = [food_run EXCEPT !.calls = Append(@, action)]
    /\ UNCHANGED <<host_vars, agent_vars, inflight, lookup, safety_run, cab_run>>

\* the LLM answers "Final Answer": the executor returns its output (line 182)
FoodFinalAnswer ==
    /\ food_run.status = "running"
    /\ food_run' = [food_run EXCEPT !.status = "done",
                                    !.output = FoodRun("scenario", [output |-> "Final Answer"])]
    /\ UNCHANGED <<host_vars, agent_vars, inflight, lookup, safety_run, cab_run>>

\* the LLM request or the executor raises: run's except clause (lines 183-184)
FoodRunFailed ==
    /\ food_run.status = "running"
    /\ food_run' = [food_run EXCEPT !.status = "failed",
                                    !.output = FoodRun("scenario", Raised)]
    /\ UNCHANGED <<host_vars, agent_vars, inflight, lookup, safety_run, cab_run>>

\* GET /status arriving while /process-audio requests are in flight:
\* get_status has no await, so it reads the four fields in one run
StatusRead ==
    /\ pc = "serving"
    /\ last_request' =
         HttpOk("/status",
                [host_dashboard |->
                    [current_threat_level |-> current_status.threat_level,
                     last_recognized_text |-> current_status.last_recognized_text,
                     active_alerts_today |-> current_status.active_alerts,
                     last_status_update |-> current_status.last_update],
                 registered_tools |-> DOMAIN TOOL_REGISTRY],
                0, <<>>)
    /\ UNCHANGED <<startup_vars, current_status, served, high_events, elsewhere>>

\* ------------------------------------------- find_nearest_pending_order
Abs(x) == IF x < 0 THEN -x ELSE x

\* nearest_order_id = None
NoOrder == <<>>

\* the scan with `<=` for `<`: of two orders equally near, the later one
RECURSIVE NearestScanLastWins(_, _, _, _, _)
NearestScanLastWins(pending, restaurants, driver_location, current_merchant_id, best) ==
    IF pending = <<>> THEN best
    ELSE LET order == Head(pending)
             merchant_id == order.merchant_id
             distance == Abs(restaurants[merchant_id].location - driver_location)
             better == /\ merchant_id # current_merchant_id
                       /\ merchant_id \in DOMAIN restaurants
                       /\ (best.nearest_order_id = NoOrder \/ distance <= best.min_distance)
         IN  NearestScanLastWins(Tail(pending), restaurants, driver_location,
                                 current_merchant_id,
                                 IF better THEN [nearest_order_id |-> order.order_id,
                                                 min_distance |-> distance]
                                 ELSE best)

\* the loop of lines 69-77 over the pending orders left; `best` holds
\* nearest_order_id and min_distance (infinite while no order is held)
RECURSIVE NearestScan(_, _, _, _, _)
NearestScan(pending, restaurants, driver_location, current_merchant_id, best) ==
    IF pending = <<>> THEN best
    ELSE LET order == Head(pending)
             merchant_id == order.merchant_id
             distance == Abs(restaurants[merchant_id].location - driver_location)
             better == /\ merchant_id # current_merchant_id
                       /\ merchant_id \in DOMAIN restaurants
                       /\ (best.nearest_order_id = NoOrder \/ distance < best.min_distance)
         IN  NearestScan(Tail(pending), restaurants, driver_location,
                         current_merchant_id,
                         IF better THEN [nearest_order_id |-> order.order_id,
                                         min_distance |-> distance]
                         ELSE best)

IsPending(order) == order.status = "Awaiting Pickup"

\* find_nearest_pending_order, lines 58-83; the text it returns is given by
\* its parts
FindNearestPendingOrder(data, driver_location, current_merchant_id) ==
    LET pending_orders == SelectSeq(data.orders, IsPending)
        best == NearestScan(pending_orders, data.restaurants, driver_location,
                            current_merchant_id,
                            [nearest_order_id |-> NoOrder, min_distance |-> 0])
    IN  IF pending_orders = <<>>
        THEN [text |-> "No other pending orders available for rerouting."]
        ELSE IF best.nearest_order_id # NoOrder
        THEN LET held == CHOOSE i \in DOMAIN pending_orders :
                             pending_orders[i].order_id = best.nearest_order_id
                 new_merchant == data.restaurants[pending_orders[held].merchant_id]
             IN  [text |-> "Found nearest pending order",
                  order_id |-> best.nearest_order_id,
                  at |-> new_merchant.name,
                  units_away |-> best.min_distance]
        ELSE [text |-> "No suitable nearby order could be found that is not at the current merchant."]

\* where the LLM may say the driver is
DriverLocations == {0, 4, 7}

\* the tool is called once
FindNearest ==
    /\ ~lookup.called
    /\ \E driver_location \in DriverLocations, current_merchant_id \in MerchantIds :
         lookup' = [lookup EXCEPT
                      !.called = TRUE,
                      !.driver_location = driver_location,
                      !.current_merchant_id = current_merchant_id,
                      !.answer = FindNearestPendingOrder(lookup.data, driver_location,
                                                         current_merchant_id)]
    /\ UNCHANGED <<host_vars, agent_vars, inflight, food_run, safety_run, cab_run>>

\* ------------------------------------------- the safety agent's four stages
\* analyze_sentiment_with_vader, lines 25-33: VADER's compound score in
\* tenths, 0 when the analyzer raises
CompoundScores == {-8, -3, 0, 6}

\* an action stage that alerts the officials and also checks in with the user
\* on a HIGH threat
SafetyActionBoth(threat_analysis) ==
    IF DictGet(threat_analysis, "threat_level", "None") = "HIGH"
    THEN <<"notify_officials", "contact_user">>
    ELSE IF DictGet(threat_analysis, "threat_level", "None") = "MEDIUM"
    THEN <<"contact_user">>
    ELSE <<>>

\* stage 4, lines 137-145: the notifier functions called for a judgment
SafetyAction(threat_analysis) ==
    LET level == DictGet(threat_analysis, "threat_level", "None")
    IN  IF level = "HIGH" THEN <<"notify_officials">>
        ELSE IF level = "MEDIUM" THEN <<"contact_user">>
        ELSE <<>>

\* how analyze_audio ends before its action stage: its return value
SafetyEnds(run, transcription, judgment) ==
    [run EXCEPT !.stage = "done",
                !.result = AnalyzeAudio(gemini_model, transcription, judgment, "ok")]

\* stage 1, lines 91-107: without a model the run ends at once; a failed
\* transcription and an empty transcript end it too
SafetyTranscribe ==
    /\ safety_run.stage = "idle"
    /\ IF gemini_model = "None"
       THEN safety_run' = SafetyEnds(safety_run, Raised, Raised)
       ELSE \E transcription \in Transcriptions :
              LET run == [safety_run EXCEPT !.transcription = transcription,
                                            !.log = Append(@, "transcription")]
              IN  safety_run' = IF IsRaised(transcription) \/ transcription.text = ""
                                THEN SafetyEnds(run, transcription, Raised)
                                ELSE [run EXCEPT !.stage = "transcribed"]
    /\ UNCHANGED <<host_vars, agent_vars, inflight, food_run, lookup, cab_run>>

\* stage 2, lines 109-112
SafetySentiment ==
    /\ safety_run.stage = "transcribed"
    /\ \E compound_score \in CompoundScores :
         safety_run' = [safety_run EXCEPT !.stage = "scored",
                                          !.sentiment = compound_score,
                                          !.log = Append(@, "sentiment")]
    /\ UNCHANGED <<host_vars, agent_vars, inflight, food_run, lookup, cab_run>>

\* stage 3, lines 114-133: the level is whatever the judgment request
\* answers; the rules of lines 123-126 are text of its prompt
SafetyJudge ==
    /\ safety_run.stage = "scored"
    /\ \E judgment \in Judgments :
         LET run == [safety_run EXCEPT !.judgment = judgment,
                                       !.log = Append(@, "judgment")]
         IN  safety_run' = IF IsRaised(judgment)
                           THEN SafetyEnds(run, run.transcription, judgment)
                           ELSE [run EXCEPT !.stage = "judged"]
    /\ UNCHANGED <<host_vars, agent_vars, inflight, food_run, lookup, cab_run>>

\* stage 4 and the return, lines 135-147
SafetyAct ==
    /\ safety_run.stage = "judged"
    /\ \E twilio \in TwilioEnvs :
         safety_run' =
            [safety_run EXCEPT
               !.stage = "done",
               !.log = Append(@, "action"),
               !.calls = SafetyAction([recognized_text |-> safety_run.transcription.text]
                                        @@ safety_run.judgment),
               !.result = AnalyzeAudio(gemini_model, safety_run.transcription,
                                       safety_run.judgment, twilio)]
    /\ UNCHANGED <<host_vars, agent_vars, inflight, food_run, lookup, cab_run>>

\* ------------------------------------- the cab-rerouting agent's pipeline
\* (rerouting_agent.py)
\* the answers of the intent request, as the dictionary `data` of line 120 or
\* 124: an exception, both keys, a key missing, blank text, and the fallback
\* for an answer that holds no JSON object
IntentAnswers ==
    { Raised,
      [query |-> "restaurant", location_hint |-> "Madhapur"],
      [query |-> "restaurant"],
      [query |-> " ", location_hint |-> "Madhapur"],
      [query |-> "", location_hint |-> ""] }

\* str.strip on the texts above
Strip(text) == IF text = " " THEN "" ELSE text

\* _extract_query_and_location, lines 106-127
ExtractQueryAndLocation(data) ==
    IF IsRaised(data) THEN Raised
    ELSE [query |-> Strip(DictGet(data, "query", "")),
          location_hint |-> Strip(DictGet(data, "location_hint", ""))]

\* the test of line 182 with the hint left out
UnderstoodQueryOnly(query, location_hint) == query # ""

\* line 182, negated: the run goes on
Understood(query, location_hint) == query # "" /\ location_hint # ""

PlaceName(i) == <<"place", i>>

PlaceAddress(i) == <<"street", i>>

\* what places_nearby tells about a place's rating: 4.0, 4.5 (in tenths) or
\* nothing
PlaceRatings == { [rating |-> 40], [rating |-> 45], EmptyDict }

\* the lists gmaps.places_nearby can answer, nearest place first
PlacesNearby ==
    UNION { { [i \in 1..n |-> [name |-> PlaceName(i), vicinity |-> PlaceAddress(i)]
                                 @@ ratings[i]]
              : ratings \in [1..n -> PlaceRatings] }
            : n \in 0..MaxPlaces }

\* the Google Maps answers to one search
MapsAnswers ==
    { [geocode |-> "raises"], [geocode |-> "none"] }
      \cup { [geocode |-> "ok", results |-> results] : results \in PlacesNearby }

\* one entry of top_results, line 35; a rating is a number or the text 'N/A'
TopResult(p) ==
    [name |-> p.name, address |-> p.vicinity,
     rating |-> IF Has(p, "rating") THEN [float |-> p.rating] ELSE [str |-> "N/A"]]

\* find_alternative_destinations, lines 26-37: an error text, or the repr of
\* the first three places
FindAlternativeDestinations(maps) ==
    IF maps.geocode = "raises" THEN [text |-> "Error using Google Maps APIs"]
    ELSE IF maps.geocode = "none" THEN [text |-> "Error: Could not find coordinates"]
    ELSE IF maps.results = <<>> THEN [text |-> "No alternative destinations found nearby."]
    ELSE [repr |-> [i \in 1..(IF Len(maps.results) < 3 THEN Len(maps.results) ELSE 3)
                      |-> TopResult(maps.results[i])]]

\* _parse_alternatives, lines 130-134: literal_eval gives the list back and
\* raises on the texts
ParseAlternatives(result_text) ==
    IF Has(result_text, "repr") THEN result_text.repr ELSE <<>>

\* rating_of, lines 138-142: float('N/A') raises
RatingOf(item) ==
    LET rating == DictGet(item, "rating", [float |-> 0])
    IN  IF Has(rating, "float") THEN rating.float ELSE 0

\* best = None
NoBest == [none |-> TRUE]

IsNone(best) == Has(best, "none")

\* max(alternatives, key=rating_of): the first item no later item beats
RECURSIVE MaxByRating(_, _)
MaxByRating(alternatives, best) ==
    IF alternatives = <<>> THEN best
    ELSE MaxByRating(Tail(alternatives),
                     IF RatingOf(Head(alternatives)) > RatingOf(best)
                     THEN Head(alternatives) ELSE best)

\* _choose_best, lines 136-143
ChooseBest(alternatives) ==
    IF alternatives = <<>> THEN NoBest
    ELSE MaxByRating(Tail(alternatives), Head(alternatives))

\* a choice among all the places found
OptionsWithFirst(all_found_locations) == all_found_locations

\* line 194
OptionsForReroute(all_found_locations) ==
    IF Len(all_found_locations) > 1 THEN Tail(all_found_locations) ELSE <<>>

\* what gmaps.directions answers: an exception, no route, or one leg
DirectionsAnswers == {"raises", "none", "leg"}

\* get_new_route_details, lines 39-47
GetNewRouteDetails(directions) ==
    IF directions = "raises" THEN "Error using Directions API"
    ELSE IF directions = "none" THEN "Error: Could not calculate a route."
    ELSE "New route found. Distance: 5.2 km. ETA: 12 mins."

\* _extract_distance_duration, lines 145-151
ExtractDistanceDuration(route_text) ==
    IF route_text = "New route found. Distance: 5.2 km. ETA: 12 mins."
    THEN [distance_text |-> "5.2 km", duration_text |-> "12 mins"]
    ELSE [distance_text |-> "", duration_text |-> ""]

\* float(re.findall(r"[\d\.]+", text)[0]) in tenths; an empty text has no
\* number and the indexing raises
FirstNumber(text) ==
    IF text = "5.2 km" THEN [tenths |-> 52]
    ELSE IF text = "12 mins" THEN [tenths |-> 120]
    ELSE Raised

\* calculate_new_fare, lines 50-60, the fare in cents
CalculateNewFare(distance_text, duration_text) ==
    LET distance_km == FirstNumber(distance_text)
        duration_min == FirstNumber(duration_text)
    IN  IF IsRaised(distance_km) \/ IsRaised(duration_min)
        THEN [text |-> "Could not calculate the new fare."]
        ELSE [text |-> "The estimated new fare for the updated trip is",
              cents |-> 250 + 2 * 10 * distance_km.tenths + 5 * duration_min.tenths]

\* notify_passenger_via_twilio, lines 63-77
NotifyPassengerViaTwilio(twilio) ==
    IF twilio = "no credentials" THEN "Twilio credentials are not fully configured."
    ELSE IF twilio = "ok" THEN "Passenger notification successfully sent via Twilio."
    ELSE "Error sending Twilio notification"

\* step 1, lines 179-183, and the except clause of lines 239-242
CabExtract ==
    /\ cab_run.step = "idle"
    /\ \E data \in IntentAnswers :
         LET intent == ExtractQueryAndLocation(data)
             run == [cab_run EXCEPT !.log = Append(@, "extract")]
         IN  cab_run' =
               IF IsRaised(intent)
               THEN [run EXCEPT !.step = "done", !.failed = TRUE,
                                !.output = "AGENT EXECUTION FAILED"]
               ELSE IF ~Understood(intent.query, intent.location_hint)
               THEN [run EXCEPT !.step = "done", !.extracted = TRUE,
                                !.query = intent.query,
                                !.location_hint = intent.location_hint,
                                !.output = "Could not understand scenario. Please provide the place and approximate location."]
               ELSE [run EXCEPT !.step = "extracted", !.extracted = TRUE,
                                !.query = intent.query,
                                !.location_hint = intent.location_hint]
    /\ UNCHANGED <<host_vars, agent_vars, inflight, food_run, lookup, safety_run>>

\* step 2, lines 185-188
CabSearch ==
    /\ cab_run.step = "extracted"
    /\ \E maps \in MapsAnswers :
         cab_run' = [cab_run EXCEPT
                       !.step = "searched",
                       !.log = Append(@, "search"),
                       !.all_found_locations =
                            ParseAlternatives(FindAlternativeDestinations(maps))]
    /\ UNCHANGED <<host_vars, agent_vars, inflight, food_run, lookup, safety_run>>

\* lines 194-197
CabPick ==
    /\ cab_run.step = "searched"
    /\ cab_run' = [cab_run EXCEPT
                     !.step = "picked",
                     !.log = Append(@, "pick"),
                     !.options_for_reroute = OptionsForReroute(cab_run.all_found_locations),
                     !.best = ChooseBest(OptionsForReroute(cab_run.all_found_locations))]
    /\ UNCHANGED <<host_vars, agent_vars, inflight, food_run, lookup, safety_run>>

\* lines 199-201
CabNoAlternative ==
    /\ cab_run.step = "picked"
    /\ IsNone(cab_run.best)
    /\ \E twilio \in TwilioEnvs :
         cab_run' = [cab_run EXCEPT
                       !.step = "done",
                       !.log = Append(@, "notify"),
                       !.notified = Append(@, [message |-> "Sorry, we couldn't find a suitable alternative",
                                               result |-> NotifyPassengerViaTwilio(twilio)]),
                       !.output = "No suitable alternative destinations found nearby."]
    /\ UNCHANGED <<host_vars, agent_vars, inflight, food_run, lookup, safety_run>>

\* step 3, lines 203-208
CabRoute ==
    /\ cab_run.step = "picked"
    /\ ~IsNone(cab_run.best)
    /\ \E directions \in DirectionsAnswers :
         LET route_text == GetNewRouteDetails(directions)
         IN  cab_run' = [cab_run EXCEPT
                           !.step = "routed",
                           !.log = Append(@, "route"),
                           !.route_text = route_text,
                           !.distance_text = ExtractDistanceDuration(route_text).distance_text,
                           !.duration_text = ExtractDistanceDuration(route_text).duration_text]
    /\ UNCHANGED <<host_vars, agent_vars, inflight, food_run, lookup, safety_run>>

\* step 4, lines 210-212
CabFare ==
    /\ cab_run.step = "routed"
    /\ cab_run' = [cab_run EXCEPT
                     !.step = "fared",
                     !.log = Append(@, "fare"),
                     !.fare_text = CalculateNewFare(cab_run.distance_text,
                                                    cab_run.duration_text)]
    /\ UNCHANGED <<host_vars, agent_vars, inflight, food_run, lookup, safety_run>>

\* the proposal sent as soon as the route is known
CabNotifyUnpriced ==
    /\ cab_run.step \in {"routed", "fared"}
    /\ \E twilio \in TwilioEnvs :
         cab_run' = [cab_run EXCEPT
                       !.step = "done",
                       !.log = Append(@, "notify"),
                       !.notified = Append(@, [message |-> "Proposed reroute to",
                                               destination |-> cab_run.best.name,
                                               result |-> NotifyPassengerViaTwilio(twilio)]),
                       !.output = "==== Reasoning Log ==== ... ==== Final Answer ==== Reroute complete."]
    /\ UNCHANGED <<host_vars, agent_vars, inflight, food_run, lookup, safety_run>>

\* steps 5 and 6, lines 218-238
CabNotify ==
    /\ cab_run.step = "fared"
    /\ \E twilio \in TwilioEnvs :
         cab_run' = [cab_run EXCEPT
                       !.step = "done",
                       !.log = Append(@, "notify"),
                       !.notified = Append(@, [message |-> "Proposed reroute to",
                                               destination |-> cab_run.best.name,
                                               result |-> NotifyPassengerViaTwilio(twilio)]),
                       !.output = "==== Reasoning Log ==== ... ==== Final Answer ==== Reroute complete."]
    /\ UNCHANGED <<host_vars, agent_vars, inflight, food_run, lookup, safety_run>>

\* lifespan up to its yield
Startup ==
    \/ SafetyInitialize
    \/ SafetyListTools
    \/ LoadServerConfigs
    \/ ConfigSkip
    \/ ConfigInitialize
    \/ ConfigListTools
    \/ RouterInit

Next ==
    \/ SafetyInitialize
    \/ SafetyListTools
    \/ LoadServerConfigs
    \/ ConfigSkip
    \/ ConfigInitialize
    \/ ConfigListTools
    \/ RouterInit
    \/ Root
    \/ GetStatus
    \/ ProcessAudio
    \/ ResolveDisruption

Spec == Init /\ [][Next]_vars

\* startup alone, over longer configuration files
StartupSpec == StartupInit /\ [][Startup]_vars

\* the three specialist servers answering RPC requests
AgentInit ==
    /\ HostInit({[exists |-> FALSE, entries |-> <<>>]})
    /\ AgentsInit({"None", "ready"})
    /\ NoRequests
    /\ PipelinesIdle

AgentNext ==
    \/ FoodHandleRpcRequest
    \/ RerouteHandleRpcRequest
    \/ SafetyHandleRpcRequest

AgentSpec == AgentInit /\ [][AgentNext]_vars

\* the Host started without servers.json, its /process-audio requests
\* handled concurrently
ConcurrentInit ==
    /\ HostInit({[exists |-> FALSE, entries |-> <<>>]})
    /\ AgentsInit({"ready"})
    /\ NoRequests
    /\ PipelinesIdle

ConcurrentNext ==
    \/ SafetyInitialize
    \/ SafetyListTools
    \/ LoadServerConfigs
    \/ RouterInit
    \/ \E r \in 1..MaxConcurrent : AudioBegin(r)
    \/ \E r \in 1..MaxConcurrent : AudioRead(r)
    \/ \E r \in 1..MaxConcurrent : AudioFinish(r)
    \/ StatusRead

ConcurrentSpec == ConcurrentInit /\ [][ConcurrentNext]_vars

\* one run of the food-delay agent, over a merchant that is slow or not
FoodInit ==
    /\ HostInit({[exists |-> FALSE, entries |-> <<>>]})
    /\ AgentsInit({"ready"})
    /\ NoRequests
    /\ FoodIdle({20, 45})
    /\ LookupIdle({NoSystemData})
    /\ SafetyIdle
    /\ CabIdle

FoodNext ==
    \/ FoodRunStart
    \/ FoodToolCall
    \/ FoodFinalAnswer
    \/ FoodRunFailed

FoodSpec == FoodInit /\ [][FoodNext]_vars

\* find_nearest_pending_order over every small system_data.json
NearestInit ==
    /\ HostInit({[exists |-> FALSE, entries |-> <<>>]})
    /\ AgentsInit({"ready"})
    /\ NoRequests
    /\ FoodIdle({45})
    /\ LookupIdle(SystemDataFiles)
    /\ SafetyIdle
    /\ CabIdle

NearestNext == FindNearest

NearestSpec == NearestInit /\ [][NearestNext]_vars

\* one run of the safety agent's analyze_audio
SafetyInit ==
    /\ HostInit({[exists |-> FALSE, entries |-> <<>>]})
    /\ AgentsInit({"None", "ready"})
    /\ NoRequests
    /\ FoodIdle({45})
    /\ LookupIdle({NoSystemData})
    /\ SafetyIdle
    /\ CabIdle

SafetyNext ==
    \/ SafetyTranscribe
    \/ SafetySentiment
    \/ SafetyJudge
    \/ SafetyAct

SafetySpec == SafetyInit /\ [][SafetyNext]_vars

\* one run of the cab-rerouting agent
CabInit ==
    /\ HostInit({[exists |-> FALSE, entries |-> <<>>]})
    /\ AgentsInit({"ready"})
    /\ NoRequests
    /\ FoodIdle({45})
    /\ LookupIdle({NoSystemData})
    /\ SafetyIdle
    /\ CabIdle

CabNext ==
    \/ CabExtract
    \/ CabSearch
    \/ CabPick
    \/ CabNoAlternative
    \/ CabRoute
    \/ CabFare
    \/ CabNotify

CabSpec == CabInit /\ [][CabNext]_vars

\* ================================================================ claims
\* client c has completed a successful initialize
InitializedOk(c) ==
    \E i \in DOMAIN handshake_log :
        /\ handshake_log[i].client = c
        /\ handshake_log[i].method = "initialize"
        /\ handshake_log[i].ok

\* the non-empty tool names client c stored from its tools/list answer
ListedNames(c) ==
    { clients[c].tools[i].name :
        i \in {j \in DOMAIN clients[c].tools : Has(clients[c].tools[j], "name")} }
      \ {""}

\* the successfully initialized clients that listed tool name X
Listers(X) == {c \in DOMAIN clients : InitializedOk(c) /\ X \in ListedNames(c)}

HandshakeEntries == {handshake_log[i] : i \in DOMAIN handshake_log}

\* C1: once startup has finished, looking up a tool name that some
\* successfully initialized specialist listed returns the client of a
\* specialist that listed it, and looking up a name nobody listed returns
\* the absent value.
C1_LookupReturnsLister ==
    pc = "serving" =>
        \A X \in ToolNames :
            IF Listers(X) = {}
            THEN RegistryGet(TOOL_REGISTRY, X) = NoClient
            ELSE RegistryGet(TOOL_REGISTRY, X) \in Listers(X)

C1_Witness ==
    /\ pc = "serving"
    /\ Listers(FoodTool) = {1}
    /\ RegistryGet(TOOL_REGISTRY, FoodTool) = 1
    /\ Listers(CabTool) = {}
    /\ RegistryGet(TOOL_REGISTRY, CabTool) = NoClient

\* C8: when several specialists processed during startup list the same
\* tool name, the registry maps the name to the one processed last (the
\* safety client is processed first, then the entries in file order).
C8_LastRegistrationWins ==
    pc = "serving" =>
        \A X \in ToolNames :
            \A c \in Listers(X) :
                /\ RegistryGet(TOOL_REGISTRY, X) \in Listers(X)
                /\ c <= RegistryGet(TOOL_REGISTRY, X)

C8_Witness ==
    /\ pc = "serving"
    /\ Listers(FoodTool) = {SafetyClient, 1, 2}
    /\ RegistryGet(TOOL_REGISTRY, FoodTool) = 2

\* the three kinds of answer that are not a result with capabilities
InitializeFailures ==
    { TransportFailure,
      Json([error |-> [message |-> "server error"]]),
      Json([result |-> [error |-> [message |-> "Method not found"]]]) }

\* C10: initialize returns true exactly when the answer holds a result
\* with a capabilities object; an error result, a result without
\* capabilities and a transport failure each make it return false.
C10_InitializeIffCapabilities ==
    \A e \in HandshakeEntries :
        e.method = "initialize" =>
            /\ e.ok <=> /\ e.reply.kind = "json"
                        /\ "result" \in DOMAIN e.reply.body
                        /\ "capabilities" \in DOMAIN e.reply.body.result
            /\ e.reply \in InitializeFailures => ~e.ok /\ ~e.raised

C10_Witness ==
    /\ Len(handshake_log) >= 3
    /\ handshake_log[1].method = "initialize"
    /\ handshake_log[1].reply = Json([result |-> [error |-> [message |-> "Method not found"]]])
    /\ ~handshake_log[1].ok
    /\ handshake_log[2].method = "initialize"
    /\ handshake_log[2].reply = TransportFailure
    /\ ~handshake_log[2].ok
    /\ handshake_log[3].method = "initialize"
    /\ handshake_log[3].reply = Json([result |-> [capabilities |-> [tools |-> EmptyDict]]])
    /\ handshake_log[3].ok

\* the tools/call requests made by the last HTTP request handled
LastCalls == {last_request.calls[i] : i \in DOMAIN last_request.calls}

IsResolve == last_request.endpoint = ResolveEndpoint

\* the last request was a /resolve-disruption whose router answered `label`
RoutedTo(label) ==
    /\ IsResolve
    /\ last_request.router_calls = 1
    /\ ~IsRaised(last_request.route)
    /\ last_request.route.agent_name = <<label>>

\* C2: against a specialist that is unreachable or times out, initialize
\* returns false, list_tools returns the empty sequence and call_tool
\* returns a mapping with an `error` key holding a message; none of them
\* raises.
C2_TransportFailureIsReturned ==
    /\ \A e \in HandshakeEntries :
           e.reply = TransportFailure =>
               /\ ~e.raised
               /\ e.method = "initialize" => e.ok = FALSE
               /\ e.method = "tools/list" => e.tools = <<>>
    /\ \A c \in LastCalls :
           c.reply = TransportFailure =>
               /\ "raised" \notin DOMAIN c.response
               /\ "error" \in DOMAIN c.response
               /\ "message" \in DOMAIN c.response.error

C2_Witness ==
    /\ \E e \in HandshakeEntries :
           e.reply = TransportFailure /\ e.method = "tools/list"
    /\ \E c \in LastCalls : c.reply = TransportFailure

\* a tools/call answer that reports a failure: call_tool's own
\* {error:{message}}, or an error the specialist put in its result
CallFailed(response) ==
    \/ "error" \in DOMAIN response
    \/ /\ "result" \in DOMAIN response
       /\ "error" \in DOMAIN response.result

\* C3: when the call to the chosen specialist fails, /resolve-disruption
\* reports the failure: its specialist_result carries an error indication
\* and is not the empty result.
C3_FailedCallIsReported ==
    \A c \in LastCalls :
        (IsResolve /\ last_request.http = 200 /\ CallFailed(c.response)) =>
            /\ last_request.body.specialist_result # EmptyDict
            /\ "error" \in DOMAIN last_request.body.specialist_result

\* the registry key the fixed table gives each label
LabelTool(label) ==
    IF label = "food_delay_agent" THEN FoodTool
    ELSE IF label = "cab_rerouting_agent" THEN CabTool
    ELSE SafetyTool

\* C4: a /resolve-disruption routed to food_delay_agent or
\* cab_rerouting_agent while the registry has no client for that tool
\* makes no tools/call and answers 200 with a specialist_result whose
\* error field says the specialist is not connected.
C4_MissingSpecialistIsReported ==
    \A label \in {"food_delay_agent", "cab_rerouting_agent"} :
        (RoutedTo(label) /\ LabelTool(label) \notin DOMAIN TOOL_REGISTRY) =>
            /\ last_request.calls = <<>>
            /\ last_request.http = 200
            /\ "error" \in DOMAIN last_request.body.specialist_result
            /\ last_request.body.specialist_result.error \in
                 { "Food Delay Agent is not connected. Check servers.json and agent status.",
                   "Cab Rerouting Agent is not connected." }

C4_Witness ==
    /\ RoutedTo("cab_rerouting_agent")
    /\ CabTool \notin DOMAIN TOOL_REGISTRY
    /\ FoodTool \in DOMAIN TOOL_REGISTRY
    /\ last_request.http = 200

FixedLabels == {"safety_agent", "food_delay_agent", "cab_rerouting_agent"}

\* C5 as stated: each of the three labels, safety_agent included, has its
\* tool invoked through the registry whenever that tool is registered.
C5_EveryLabelInvokesItsTool ==
    \A label \in FixedLabels :
        (RoutedTo(label) /\ LabelTool(label) \in DOMAIN TOOL_REGISTRY) =>
            /\ Len(last_request.calls) = 1
            /\ last_request.calls[1].name = LabelTool(label)
            /\ last_request.calls[1].client = TOOL_REGISTRY[LabelTool(label)]

\* C5 amended: food_delay_agent and cab_rerouting_agent each invoke their
\* fixed tool through the registry's client for it whenever one is
\* registered; safety_agent invokes no tool and is answered with the fixed
\* notice; no other tool name is ever called.
C5_LabelInvokesFixedTool ==
    /\ \A label \in {"food_delay_agent", "cab_rerouting_agent"} :
           (RoutedTo(label) /\ LabelTool(label) \in DOMAIN TOOL_REGISTRY) =>
               /\ Len(last_request.calls) = 1
               /\ last_request.calls[1].name = LabelTool(label)
               /\ last_request.calls[1].client = TOOL_REGISTRY[LabelTool(label)]
    /\ RoutedTo("safety_agent") =>
           /\ last_request.calls = <<>>
           /\ last_request.http = 200
           /\ last_request.body.specialist_result.action = "Routing to Safety Agent."
    /\ IsResolve =>
           \A c \in LastCalls : c.name \in {FoodTool, CabTool}

C5_Witness ==
    /\ RoutedTo("food_delay_agent")
    /\ FoodTool \in DOMAIN TOOL_REGISTRY
    /\ CabTool \in DOMAIN TOOL_REGISTRY
    /\ Len(last_request.calls) = 1
    /\ last_request.http = 200

\* C6: every label the router returns is one of the three fixed labels, so
\* every /resolve-disruption answer that is not an HTTP error carries a
\* specialist_result made by one of the three branches, never the empty
\* result.
C6_RouterLabelIsFixed ==
    (IsResolve /\ last_request.http = 200) =>
        /\ \E label \in FixedLabels : last_request.route.agent_name = <<label>>
        /\ last_request.body.specialist_result # EmptyDict

\* the initialize / tools/list call that came last in the handshake
LastHandshake == handshake_log[Len(handshake_log)]

\* C7: a transport failure is never fatal.  During startup it leaves
\* lifespan running, the failing specialist unregistered, and every enabled
\* entry still gets its initialize; during a later tools/call the handler
\* still answers and the Host goes on serving.
C7_TransportFailureNotFatal ==
    /\ (handshake_log # <<>> /\ LastHandshake.reply = TransportFailure) =>
           pc # "crashed"
    /\ \A e \in HandshakeEntries :
           e.reply = TransportFailure =>
               \A X \in DOMAIN TOOL_REGISTRY : TOOL_REGISTRY[X] # e.client
    /\ pc = "serving" =>
           \A i \in DOMAIN server_configs :
               ConfigEnabled(server_configs[i]) =>
                   \E e \in HandshakeEntries :
                       e.client = i /\ e.method = "initialize"
    /\ \A c \in LastCalls :
           c.reply = TransportFailure =>
               /\ pc = "serving"
               /\ last_request.http \in {200, 500}
               /\ served < MaxRequests =>
                      /\ ENABLED Root
                      /\ ENABLED GetStatus
                      /\ ENABLED ProcessAudio
                      /\ ENABLED ResolveDisruption

C7_Witness ==
    /\ pc = "serving"
    /\ handshake_log[1].reply = TransportFailure
    /\ \E X \in DOMAIN TOOL_REGISTRY : TOOL_REGISTRY[X] = 1
    /\ \E c \in LastCalls : c.reply = TransportFailure
    /\ served = MaxRequests

\* C9: tools/list goes to a specialist only after its initialize
\* succeeded; every client in the registry has completed a successful
\* initialize; and no tools/call goes to a client that has not.
C9_InitializeBeforeUse ==
    /\ \A i \in DOMAIN handshake_log :
           handshake_log[i].method = "tools/list" =>
               \E j \in 1..(i - 1) :
                   /\ handshake_log[j].client = handshake_log[i].client
                   /\ handshake_log[j].method = "initialize"
                   /\ handshake_log[j].ok
    /\ \A X \in DOMAIN TOOL_REGISTRY : InitializedOk(TOOL_REGISTRY[X])
    /\ \A c \in LastCalls : InitializedOk(c.client)

C9_Witness ==
    /\ \E i \in DOMAIN handshake_log :
           handshake_log[i].method = "initialize" /\ ~handshake_log[i].ok
    /\ \E X \in DOMAIN TOOL_REGISTRY : TOOL_REGISTRY[X] = 1
    /\ \E c \in LastCalls : c.client = 1


\* ---------------------------------------------------------------- C11
\* the entries of servers.json whose enabled flag is false or absent
DisabledEntries ==
    IF servers_json.exists
    THEN { i \in DOMAIN servers_json.entries :
             ~Has(servers_json.entries[i], "enabled")
             \/ ~servers_json.entries[i].enabled }
    ELSE {}

\* C11: an entry of the discovery configuration whose enabled flag is false
\* or absent is never sent a request (no initialize, no tools/list is logged
\* for it), gets no client, and no tool is registered to it.
C11_DisabledEntryUntouched ==
    \A i \in DisabledEntries :
        /\ \A k \in DOMAIN handshake_log : handshake_log[k].client # i
        /\ i \notin DOMAIN clients
        /\ \A name \in DOMAIN TOOL_REGISTRY : TOOL_REGISTRY[name] # i

\* startup is over a file whose first entry has no flag and whose second,
\* enabled, entry was discovered and registered
C11_Witness ==
    /\ pc = "serving"
    /\ servers_json.exists
    /\ Len(servers_json.entries) = 2
    /\ 1 \in DisabledEntries
    /\ ~Has(servers_json.entries[1], "enabled")
    /\ \E name \in DOMAIN TOOL_REGISTRY : TOOL_REGISTRY[name] = 2

\* ---------------------------------------------------------------- C12
\* C12: once startup has finished the tool registry never changes: no
\* request of any of the four endpoints, answered with success or failure,
\* adds, removes or rebinds an entry.
C12_RegistryFixedAfterStartup ==
    [][pc = "serving" => TOOL_REGISTRY' = TOOL_REGISTRY]_vars

\* two requests were handled, the last one a /process-audio whose safety
\* specialist was unreachable and answered with an error, and the safety
\* tool is still registered to that client
C12_Witness ==
    /\ pc = "serving"
    /\ served >= 2
    /\ last_request.endpoint = AudioEndpoint
    /\ last_request.http = 500
    /\ Len(last_request.calls) = 1
    /\ last_request.calls[1].reply = TransportFailure
    /\ Has(last_request.calls[1].response, "error")
    /\ SafetyTool \in DOMAIN TOOL_REGISTRY
    /\ TOOL_REGISTRY[SafetyTool] = last_request.calls[1].client

\* ---------------------------------------------------------------- C13
\* C13 as stated: every /resolve-disruption request issues exactly one
\* router classification request and at most one tools/call, and every
\* /process-audio request at most one tools/call.
C13_OneRouterRequestOneCall ==
    /\ IsResolve => /\ last_request.router_calls = 1
                    /\ Len(last_request.calls) <= 1
    /\ last_request.endpoint = AudioEndpoint => Len(last_request.calls) <= 1

\* C13, amended: a /resolve-disruption request issues one router
\* classification request when the router exists and none when it is None
\* (the 503 answer); it issues at most one tools/call, to the registry's
\* client of one tool; a /process-audio request issues no router request
\* and at most one tools/call; GET / and GET /status issue none.
C13_AtMostOneCallPerRequest ==
    /\ Len(last_request.calls) <= 1
    /\ \A c \in LastCalls : /\ c.client # NoClient
                            /\ c.client = RegistryGet(TOOL_REGISTRY, c.name)
    /\ IsResolve =>
         last_request.router_calls = IF router_agent_executor = "None" THEN 0 ELSE 1
    /\ ~IsResolve => last_request.router_calls = 0
    /\ last_request.endpoint \in {"/", "/status"} => last_request.calls = <<>>

\* a /resolve-disruption request made one router request and one tools/call,
\* which failed, and nothing more
C13_Witness ==
    /\ IsResolve
    /\ last_request.router_calls = 1
    /\ Len(last_request.calls) = 1
    /\ CallFailed(last_request.calls[1].response)

\* ---------------------------------------------------------------- C16
\* C16: over requests handled one after another the active-alert count
\* never decreases and equals the number of /process-audio requests so far
\* whose analysis data had alert level HIGH: it grows by one for such a
\* request, also when the SMS fails or is skipped, and by zero otherwise.
C16_AlertCountIsHighEvents ==
    /\ [](current_status.active_alerts = high_events)
    /\ [][LET grown == current_status'.active_alerts - current_status.active_alerts
              high == /\ last_request'.endpoint = AudioEndpoint
                      /\ last_request'.http = 200
                      /\ Has(last_request'.body, "alert_level")
                      /\ last_request'.body.alert_level = "HIGH"
          IN  /\ grown = IF served' # served /\ high THEN 1 ELSE 0
              /\ (served' # served /\ high) => last_request'.sms # "none"
         ]_vars

\* two HIGH recordings were counted, the second one's SMS having failed
C16_Witness ==
    /\ current_status.active_alerts = 2
    /\ last_request.endpoint = AudioEndpoint
    /\ last_request.http = 200
    /\ last_request.sms = "failed"

\* ---------------------------------------------------------------- C14
\* the request just answered was a /process-audio whose data is an analysis
\* of the repository's safety agent, with transcript and judged level
AgentAnalysisAnswered ==
    /\ served' = served + 1
    /\ last_request'.endpoint = AudioEndpoint
    /\ last_request'.http = 200
    /\ Has(last_request'.body, "threat_analysis")
    /\ Has(last_request'.body.threat_analysis, "recognized_text")

\* C14: after a /process-audio request completes for audio the safety agent
\* transcribed as T and judged at level L, the dashboard shows threat level L
\* and last recognized text T, and when L is HIGH the active-alert count is
\* one higher than before the request.
C14_DashboardShowsAgentJudgment ==
    [][AgentAnalysisAnswered =>
         LET threat_analysis == last_request'.body.threat_analysis
         IN  /\ current_status'.threat_level = threat_analysis.threat_level
             /\ current_status'.last_recognized_text = threat_analysis.recognized_text
             /\ threat_analysis.threat_level = "HIGH" =>
                  current_status'.active_alerts = current_status.active_alerts + 1
      ]_vars

\* ---------------------------------------------------------------- C17
\* a specialist has answered an RPC request
RpcAnswered == rpc_last.agent # "none" /\ ~rpc_last.raised

RpcMethod == DictGet(rpc_last.body, "method", "None")

\* the required argument of the specialist's tool
RequiredArgument(agent) == IF agent = "safety" THEN "audio_data" ELSE "scenario"

\* the last request named an unknown method, or was a tools/call whose
\* required argument is absent or empty
RpcFailed ==
    \/ RpcMethod \notin {"initialize", "tools/list", "tools/call"}
    \/ /\ RpcMethod = "tools/call"
       /\ Has(rpc_last.body, "params")
       /\ LET arguments == DictGet(rpc_last.body.params, "arguments", EmptyDict)
              required == RequiredArgument(rpc_last.agent)
          IN  \/ ~Has(arguments, required)
              \/ arguments[required] = IF rpc_last.agent = "safety" THEN <<>> ELSE ""

\* C17: every JSON-RPC response a specialist emits carries exactly one of
\* `result` and `error`: `result` when the method succeeded, and `error`
\* without `result` when it failed (unknown method, or a tools/call missing
\* its required argument).
C17_ResultXorError ==
    RpcAnswered =>
        /\ Has(rpc_last.response, "result") # Has(rpc_last.response, "error")
        /\ RpcFailed => /\ Has(rpc_last.response, "error")
                        /\ ~Has(rpc_last.response, "result")
        /\ ~RpcFailed => Has(rpc_last.response, "result")

\* ---------------------------------------------------------------- C18
AgentToolName(agent) ==
    IF agent = "food" THEN FoodTool
    ELSE IF agent = "cab" THEN CabTool
    ELSE SafetyTool

\* the registry after the Host has registered the three servers' lists
AllRegistered ==
    RegisterTools(RegisterTools(RegisterSafetyTools(EmptyDict, tool_definition["safety"],
                                                    SafetyClient),
                                tool_definition["food"], 1),
                  tool_definition["cab"], 2)

\* C18: each specialist answers every tools/list request, after any earlier
\* requests, with exactly one descriptor whose name is its constant tool
\* name; the three names are pairwise distinct, so registering the three
\* servers gives three entries, each bound to its own server's client.
C18_OneConstantToolPerAgent ==
    /\ rpc_last.agent # "none" /\ RpcMethod = "tools/list" =>
         /\ ~rpc_last.raised
         /\ Has(rpc_last.response, "result")
         /\ Has(rpc_last.response.result, "tools")
         /\ Len(rpc_last.response.result.tools) = 1
         /\ rpc_last.response.result.tools[1].name = AgentToolName(rpc_last.agent)
    /\ Cardinality({tool_definition[agent][1].name : agent \in Agents}) = 3
    /\ DOMAIN AllRegistered = ToolNames
    /\ AllRegistered[SafetyTool] = SafetyClient
    /\ AllRegistered[FoodTool] = 1
    /\ AllRegistered[CabTool] = 2

\* the cab-rerouting server answers a tools/list that follows another request
C18_Witness ==
    /\ rpc_served = 2
    /\ rpc_last.agent = "cab"
    /\ RpcMethod = "tools/list"
    /\ ~rpc_last.raised
    /\ rpc_last.response.result.tools[1].name = CabTool

\* ---------------------------------------------------------------- C19
\* C19: an exception raised at any point while a specialist handles a
\* tools/call request is caught and returned inside the tool's answer; the
\* RPC handler itself never raises.
C19_ToolsCallNeverRaises ==
    rpc_last.agent # "none" /\ RpcMethod = "tools/call" => ~rpc_last.raised

\* ---------------------------------------------------------------- C15
\* the /process-audio requests answered so far with a HIGH analysis
HighDone == {r \in DOMAIN inflight : inflight[r].pc = "done" /\ inflight[r].high}

\* two or more requests that overlapped in time were each answered with a
\* HIGH analysis, and no request is still being handled
ConcurrentHighsDone ==
    /\ \A r \in DOMAIN inflight : inflight[r].pc = "done"
    /\ Cardinality({r \in HighDone : inflight[r].overlapped}) >= 2

FoodLaterCalls == SubSeq(food_run.calls, 3, Len(food_run.calls))

\* C20: in every run of the food-delay pipeline get_order_details is called
\* first and get_merchant_details second; then a prep time above 40 minutes
\* takes the critical branch (find_nearest_pending_order,
\* get_nearby_merchants, and two notifications, driver then customer), and a
\* prep time of 40 or less sends one notification, to the customer, and calls
\* neither reroute tool.
C20_FoodPipelineOrder ==
    food_run.status = "done" =>
        /\ Len(food_run.calls) >= 2
        /\ food_run.calls[1].tool = "get_order_details"
        /\ food_run.calls[2].tool = "get_merchant_details"
        /\ food_run.prep_time_mins > 40 =>
             FoodLaterCalls = << [tool |-> "find_nearest_pending_order", to |-> ""],
                                 [tool |-> "get_nearby_merchants", to |-> ""],
                                 [tool |-> "notify_via_twilio", to |-> "driver"],
                                 [tool |-> "notify_via_twilio", to |-> "customer"] >>
        /\ food_run.prep_time_mins <= 40 =>
             FoodLaterCalls = << [tool |-> "notify_via_twilio", to |-> "customer"] >>

\* ---------------------------------------------------------------- C26
\* C26: a /process-audio request that ends in an error response leaves
\* every dashboard field unchanged, both when no client is registered for
\* safety/analyzeAudio (501, no outbound call) and when call_tool returned
\* an error result (500).
C26_ErrorLeavesDashboard ==
    [][(/\ served' = served + 1
        /\ last_request'.endpoint = AudioEndpoint
        /\ last_request'.http # 200)
       => /\ current_status' = current_status
          /\ last_request'.http \in {500, 501}
          /\ last_request'.http = 501 => last_request'.calls = <<>>
      ]_vars

\* a HIGH alert is on the dashboard and the request after it was answered
\* 500 because call_tool returned an error result
C26_Witness ==
    /\ last_request.endpoint = AudioEndpoint
    /\ last_request.http = 500
    /\ Len(last_request.calls) = 1
    /\ Has(last_request.calls[1].response, "error")
    /\ current_status.threat_level = "HIGH"
    /\ current_status.active_alerts = 1
    /\ current_status.last_update = 1

\* ---------------------------------------------------------------- C28
\* C28: when router initialization failed at startup the Host still starts
\* and serves GET /, GET /status and /process-audio; every
\* /resolve-disruption request is then answered 503 with no LLM request and
\* no tools/call; the router is never re-initialized.
C28_RouterFailureIs503 ==
    /\ [](pc = "serving" /\ router_agent_executor = "None" =>
            /\ IsResolve => /\ last_request.http = 503
                            /\ last_request.router_calls = 0
                            /\ last_request.calls = <<>>
            /\ served < MaxRequests =>
                 /\ ENABLED Root
                 /\ ENABLED GetStatus
                 /\ ENABLED ProcessAudio
                 /\ ENABLED ResolveDisruption)
    /\ [][pc = "serving" => router_agent_executor' = router_agent_executor]_vars

\* the Host serves without a router and has answered its second request, a
\* /resolve-disruption, with 503
C28_Witness ==
    /\ pc = "serving"
    /\ router_agent_executor = "None"
    /\ served = 2
    /\ IsResolve
    /\ last_request.http = 503

\* ---------------------------------------------------------------- C27
\* level, text and timestamp as the last /status response shows them
StatusShown ==
    LET host_dashboard == last_request.body.host_dashboard
    IN  [threat_level |-> host_dashboard.current_threat_level,
         last_recognized_text |-> host_dashboard.last_recognized_text,
         last_update |-> host_dashboard.last_status_update]

\* C27: under any interleaving of concurrent /process-audio and GET /status
\* requests, every /status response shows a threat level, a last recognized
\* text and a last-update timestamp that are all initial or were all written
\* by one /process-audio request.
C27_StatusIsOneWrite ==
    last_request.endpoint = "/status" =>
        \/ StatusShown = [threat_level |-> "SAFE", last_recognized_text |-> "",
                          last_update |-> 0]
        \/ \E r \in DOMAIN inflight : inflight[r].wrote = StatusShown

\* two requests wrote different levels to the dashboard, a /status response
\* shows what the later one wrote, and the two overlapped
C27_Witness ==
    /\ last_request.endpoint = "/status"
    /\ \E r, q \in DOMAIN inflight :
         /\ inflight[r].overlapped /\ inflight[q].overlapped
         /\ Has(inflight[r].wrote, "threat_level")
         /\ Has(inflight[q].wrote, "threat_level")
         /\ inflight[r].wrote.threat_level # inflight[q].wrote.threat_level
         /\ inflight[r].wrote.last_update > inflight[q].wrote.last_update
         /\ StatusShown = inflight[r].wrote

\* ---------------------------------------------------------------- C30
\* the last request was a tools/call without its required argument: no
\* params, no arguments, the argument absent, or the argument empty
RequiredMissing ==
    /\ rpc_last.agent # "none"
    /\ RpcMethod = "tools/call"
    /\ LET params == DictGet(rpc_last.body, "params", EmptyDict)
           arguments == DictGet(params, "arguments", EmptyDict)
           required == RequiredArgument(rpc_last.agent)
       IN  \/ ~Has(arguments, required)
           \/ arguments[required] = IF rpc_last.agent = "safety" THEN <<>> ELSE ""

\* C30: a tools/call request to any specialist that lacks its required
\* argument (absent or empty) is answered with a 'required' error and the
\* agent's pipeline is not started.
C30_MissingArgumentIsRequiredError ==
    RequiredMissing =>
        /\ ~rpc_last.raised
        /\ Has(rpc_last.response, "result")
        /\ Has(rpc_last.response.result, "error")
        /\ rpc_last.response.result.error.message =
             IF rpc_last.agent = "safety" THEN "audio_data is required."
             ELSE "Scenario is required."
        /\ ~rpc_last.ran

\* ---------------------------------------------------------------- C25
\* positions of the orders that are awaiting pickup at a merchant other
\* than the current one that is in the restaurant table
Eligible ==
    { i \in DOMAIN lookup.data.orders :
        /\ lookup.data.orders[i].status = "Awaiting Pickup"
        /\ lookup.data.orders[i].merchant_id # lookup.current_merchant_id
        /\ lookup.data.orders[i].merchant_id \in DOMAIN lookup.data.restaurants }

DistanceOf(i) ==
    Abs(lookup.data.restaurants[lookup.data.orders[i].merchant_id].location
        - lookup.driver_location)

\* C25: find_nearest_pending_order returns the order that minimises
\* |merchant location - driver_location| over exactly the orders awaiting
\* pickup whose merchant differs from current_merchant_id and is in the
\* restaurant table, the first in iteration order on ties; when there is no
\* such order it returns a 'no order' message and no order.
C25_NearestPendingOrder ==
    lookup.called =>
        IF Eligible = {}
        THEN /\ ~Has(lookup.answer, "order_id")
             /\ lookup.answer.text \in
                  { "No other pending orders available for rerouting.",
                    "No suitable nearby order could be found that is not at the current merchant." }
        ELSE \E i \in Eligible :
               /\ \A j \in Eligible : DistanceOf(i) <= DistanceOf(j)
               /\ \A j \in Eligible : DistanceOf(j) = DistanceOf(i) => i <= j
               /\ lookup.answer.order_id = lookup.data.orders[i].order_id
               /\ lookup.answer.units_away = DistanceOf(i)

\* two eligible orders are equally near and the earlier one was returned,
\* past an order that is not eligible
C25_Witness ==
    /\ lookup.called
    /\ \E i, j \in Eligible :
         /\ i < j
         /\ DistanceOf(i) = DistanceOf(j)
         /\ lookup.answer.order_id = lookup.data.orders[i].order_id
    /\ \E k \in DOMAIN lookup.data.orders : k \notin Eligible

\* ---------------------------------------------------------------- C21
\* the transcripts that contain a high-risk word (help, danger, stop)
RiskTranscripts == {"help me"}

\* the run reached its judgment and returned an analysis
SafetyJudged ==
    /\ safety_run.stage = "done"
    /\ Has(safety_run.result, "threat_analysis")
    /\ Has(safety_run.result.threat_analysis, "recognized_text")

\* C21: the threat level is a function of (the transcript contains a
\* high-risk word, the compound score): risk word and score below -0.5 gives
\* HIGH, risk word and neutral or positive score MEDIUM, no risk word and
\* neutral or positive score SAFE; the level is always SAFE, MEDIUM or HIGH.
C21_LevelFollowsRules ==
    SafetyJudged =>
        LET threat_analysis == safety_run.result.threat_analysis
            risk == safety_run.transcription.text \in RiskTranscripts
        IN  /\ Has(threat_analysis, "threat_level")
            /\ threat_analysis.threat_level \in {"SAFE", "MEDIUM", "HIGH"}
            /\ risk /\ safety_run.sentiment < -5 => threat_analysis.threat_level = "HIGH"
            /\ risk /\ safety_run.sentiment >= 0 => threat_analysis.threat_level = "MEDIUM"
            /\ ~risk /\ safety_run.sentiment >= 0 => threat_analysis.threat_level = "SAFE"

\* ---------------------------------------------------------------- C22
Count(calls, name) == Cardinality({i \in DOMAIN calls : calls[i] = name})

\* the level the action stage branches on: the judged one, none without a
\* judgment
JudgedLevel ==
    IF safety_run.stage = "done" /\ Has(safety_run.result, "threat_analysis")
    THEN DictGet(safety_run.result.threat_analysis, "threat_level", "None")
    ELSE "None"

\* C22: the action is decided by the judged level alone and at most one
\* notification is sent per run: HIGH calls notify_officials once and never
\* contact_user, MEDIUM calls contact_user once and never notify_officials,
\* any other level, an empty transcript and a failed run send none; the
\* action stage never runs before the judgment stage.
C22_OneActionByLevel ==
    /\ Len(safety_run.calls) <= 1
    /\ safety_run.stage # "done" => safety_run.calls = <<>>
    /\ safety_run.stage = "done" =>
         safety_run.calls = IF JudgedLevel = "HIGH" THEN <<"notify_officials">>
                            ELSE IF JudgedLevel = "MEDIUM" THEN <<"contact_user">>
                            ELSE <<>>
    /\ \A i \in DOMAIN safety_run.log :
         safety_run.log[i] = "action" =>
            /\ i = 4
            /\ SubSeq(safety_run.log, 1, 3) = <<"transcription", "sentiment", "judgment">>

\* a run judged HIGH on a negative score has called notify_officials, once,
\* as its fourth stage, while Twilio was failing
C22_Witness ==
    /\ safety_run.stage = "done"
    /\ JudgedLevel = "HIGH"
    /\ safety_run.sentiment < 0
    /\ safety_run.calls = <<"notify_officials">>
    /\ safety_run.log = <<"transcription", "sentiment", "judgment", "action">>
    /\ safety_run.result.responder_actions.action_taken = "Error notifying officials"

\* ---------------------------------------------------------------- C29
\* C29: when intent extraction yields an empty query or an empty location
\* hint the run ends at once with the 'could not understand scenario'
\* answer: no maps search, no route, no fare and no passenger notification.
C29_UnclearIntentEndsRun ==
    cab_run.extracted /\ (cab_run.query = "" \/ cab_run.location_hint = "") =>
        /\ cab_run.step = "done"
        /\ cab_run.output = "Could not understand scenario. Please provide the place and approximate location."
        /\ cab_run.log = <<"extract">>
        /\ cab_run.notified = <<>>
        /\ cab_run.all_found_locations = <<>>
        /\ cab_run.route_text = ""
        /\ cab_run.fare_text = EmptyDict

\* extraction gave a query and no location hint, and the run is over
C29_Witness ==
    /\ cab_run.extracted
    /\ cab_run.query = "restaurant"
    /\ cab_run.location_hint = ""
    /\ cab_run.step = "done"

\* ---------------------------------------------------------------- C24
\* a rating as the claim counts it: the number, 0 for 'N/A'
RatingCounted(place) ==
    IF Has(place.rating, "float") THEN place.rating.float ELSE 0

CabPicked == \E i \in DOMAIN cab_run.log : cab_run.log[i] = "pick"

CabStepRan(name) == \E i \in DOMAIN cab_run.log : cab_run.log[i] = name

\* C24: the chosen destination is never the first search result and has the
\* highest rating among the remaining ones (missing or non-numeric ratings
\* count as 0, the earliest of equal ratings wins); with fewer than two
\* results no destination is chosen, no route or fare is computed and the
\* passenger gets the 'could not find an alternative' notification.
C24_BestOfTheRest ==
    CabPicked =>
        LET found == cab_run.all_found_locations
        IN  IF Len(found) < 2
            THEN /\ IsNone(cab_run.best)
                 /\ ~CabStepRan("route") /\ ~CabStepRan("fare")
                 /\ cab_run.route_text = "" /\ cab_run.fare_text = EmptyDict
                 /\ cab_run.step = "done" =>
                      /\ Len(cab_run.notified) = 1
                      /\ cab_run.notified[1].message = "Sorry, we couldn't find a suitable alternative"
            ELSE /\ ~IsNone(cab_run.best)
                 /\ cab_run.best # found[1]
                 /\ \E i \in 2..Len(found) :
                      /\ cab_run.best = found[i]
                      /\ \A j \in 2..Len(found) :
                            RatingCounted(found[j]) <= RatingCounted(found[i])
                      /\ \A j \in 2..(i - 1) :
                            RatingCounted(found[j]) < RatingCounted(found[i])

\* three places found, the first rated best, the other two rated alike: the
\* second one was chosen and the run completed
C24_Witness ==
    /\ cab_run.step = "done"
    /\ Len(cab_run.all_found_locations) = 3
    /\ RatingCounted(cab_run.all_found_locations[1]) = 45
    /\ RatingCounted(cab_run.all_found_locations[2]) = 40
    /\ RatingCounted(cab_run.all_found_locations[3]) = 40
    /\ cab_run.best = cab_run.all_found_locations[2]

\* one place found: nothing chosen, the passenger told so
C24_WitnessNoChoice ==
    /\ cab_run.step = "done"
    /\ Len(cab_run.all_found_locations) = 1
    /\ IsNone(cab_run.best)
    /\ Len(cab_run.notified) = 1

\* ---------------------------------------------------------------- C23
CabSteps == <<"extract", "search", "pick", "route", "fare", "notify">>

CabStepIndex(name) == CHOOSE i \in DOMAIN CabSteps : CabSteps[i] = name

\* C23: a run executes its steps in the order extract, search, pick, route,
\* fare, notify, each at most once and each right after the step before it
\* (the notification of a run that found no alternative follows pick); the
\* passenger is notified at most once, and a proposed reroute is sent only
\* after route and fare were computed.
C23_StepsInOrder ==
    LET log == cab_run.log
    IN  /\ \A i \in DOMAIN log : log[i] \in {CabSteps[k] : k \in DOMAIN CabSteps}
        /\ \A i, j \in DOMAIN log : i < j => CabStepIndex(log[i]) < CabStepIndex(log[j])
        /\ log # <<>> => log[1] = "extract"
        /\ \A i \in DOMAIN log :
             i > 1 =>
               \/ CabStepIndex(log[i - 1]) = CabStepIndex(log[i]) - 1
               \/ log[i] = "notify" /\ log[i - 1] = "pick" /\ IsNone(cab_run.best)
        /\ Len(cab_run.notified) <= 1
        /\ Len(cab_run.notified) = Cardinality({i \in DOMAIN log : log[i] = "notify"})
        /\ \A n \in DOMAIN cab_run.notified :
             cab_run.notified[n].message = "Proposed reroute to" =>
                /\ log = CabSteps
                /\ cab_run.route_text # ""
                /\ cab_run.fare_text # EmptyDict

\* a complete run: six steps, a fare of 18.90, one proposal sent
C23_Witness ==
    /\ cab_run.step = "done"
    /\ cab_run.log = CabSteps
    /\ Has(cab_run.fare_text, "cents")
    /\ cab_run.fare_text.cents = 1890
    /\ Len(cab_run.notified) = 1
    /\ cab_run.notified[1].message = "Proposed reroute to"
    /\ cab_run.notified[1].result = "Passenger notification successfully sent via Twilio."

====
